---------------------------- MODULE Spec2Model ----------------------------
(***************************************************************************)
(* A model of the JSON parser of src/src/Json_Parser.cpp: the UTF-8 string *)
(* filter, the tokenizer getJsonToken, the structural parser               *)
(* Json::detail::parse and Container::toVariant.                           *)
(*                                                                         *)
(* Bytes are the naturals 0..255; a byte buffer is a sequence of bytes.    *)
(* A cursor (raw) is a 0-based offset into the buffer, and `end` is the    *)
(* length of the buffer, as in the source (end = raw + bytes.size()).      *)
(***************************************************************************)
EXTENDS Integers, Sequences, FiniteSets, TLC

(***************************************************************************)
(* Character literals of the source, by their ASCII code.                  *)
(***************************************************************************)
Ord ==
     ("{" :> 123) @@ ("}" :> 125) @@ ("[" :> 91) @@ ("]" :> 93)
  @@ (":" :> 58) @@ ("," :> 44) @@ ("\"" :> 34) @@ ("\\" :> 92)
  @@ ("/" :> 47) @@ ("-" :> 45) @@ ("+" :> 43) @@ ("." :> 46)
  @@ ("0" :> 48) @@ ("1" :> 49) @@ ("2" :> 50) @@ ("3" :> 51)
  @@ ("4" :> 52) @@ ("5" :> 53) @@ ("6" :> 54) @@ ("7" :> 55)
  @@ ("8" :> 56) @@ ("9" :> 57)
  @@ ("a" :> 97) @@ ("b" :> 98) @@ ("c" :> 99) @@ ("d" :> 100)
  @@ ("e" :> 101) @@ ("f" :> 102) @@ ("l" :> 108) @@ ("n" :> 110)
  @@ ("r" :> 114) @@ ("s" :> 115) @@ ("t" :> 116) @@ ("u" :> 117)
  @@ ("x" :> 120)
  @@ ("A" :> 65) @@ ("B" :> 66) @@ ("C" :> 67) @@ ("D" :> 68)
  @@ ("E" :> 69) @@ ("F" :> 70)
  @@ (" " :> 32) @@ ("TAB" :> 9) @@ ("LF" :> 10) @@ ("CR" :> 13)
  @@ ("BS" :> 8) @@ ("FF" :> 12)

\* The bytes of a literal given as a tuple of one-character strings.
S(cs) == [i \in 1..Len(cs) |-> Ord[cs[i]]]

Pow2(n) == 2 ^ n

\* The C operators | and & on naturals, bit by bit.
RECURSIVE BitOr(_, _)
BitOr(a, b) ==
  IF a = 0 THEN b
  ELSE IF b = 0 THEN a
  ELSE (IF a % 2 = 1 \/ b % 2 = 1 THEN 1 ELSE 0) + 2 * BitOr(a \div 2, b \div 2)

RECURSIVE BitAnd(_, _)
BitAnd(a, b) ==
  IF a = 0 \/ b = 0 THEN 0
  ELSE (IF a % 2 = 1 /\ b % 2 = 1 THEN 1 ELSE 0) + 2 * BitAnd(a \div 2, b \div 2)

\* x << n and x >> n on naturals (no value of the model reaches 32 bits).
Shl(x, n) == x * Pow2(n)
Shr(x, n) == x \div Pow2(n)

(***************************************************************************)
(* The byte the source reads at offset p of buffer b.  QByteArray::data()  *)
(* is followed by a '\0' terminator, which is what a read at offset `end`  *)
(* (strncmp on a truncated keyword, *firstDigit after a final '-') sees.   *)
(***************************************************************************)
At(b, p) == IF p < Len(b) THEN b[p + 1] ELSE 0

jsonTokenIsValue(jtt) ==
  jtt \in {"JTOK_KW_NULL", "JTOK_KW_TRUE", "JTOK_KW_FALSE", "JTOK_NUMBER", "JTOK_STRING"}

\* A test for white space that leaves out the newline.
json_isspace_NoNewline(ch) == ch \in {32, 9, 13}

json_isspace(ch) == ch \in {32, 9, 10, 13}

json_isdigit(ch) == ch >= Ord["0"] /\ ch <= Ord["9"]

MAX_JSON_DEPTH == 512

(***************************************************************************)
(* hextouint(first, last, out): the value of the hexadecimal digits at     *)
(* offsets first..last-1 of b, stopping at the first byte that is no hex   *)
(* digit.  Returns the stop offset and the value.                          *)
(***************************************************************************)
RECURSIVE hextouint_loop(_, _, _, _)
hextouint_loop(b, first, last, result) ==
  IF ~(first < last) THEN [first |-> first, out |-> result]
  ELSE LET c == At(b, first) IN
       IF json_isdigit(c)
         THEN hextouint_loop(b, first + 1, last, 16 * result + (c - Ord["0"]))
       ELSE IF c >= Ord["a"] /\ c <= Ord["f"]
         THEN hextouint_loop(b, first + 1, last, 16 * result + (c - Ord["a"] + 10))
       ELSE IF c >= Ord["A"] /\ c <= Ord["F"]
         THEN hextouint_loop(b, first + 1, last, 16 * result + (c - Ord["A"] + 10))
       ELSE [first |-> first, out |-> result]

\* A hextouint that reads the digits before the last one only.
hextouint_ThreeDigits(b, first, last) ==
  LET h == hextouint_loop(b, first, last - 1, 0) IN
  [first |-> IF h.first = last - 1 THEN last ELSE h.first, out |-> h.out]

hextouint(b, first, last) == hextouint_loop(b, first, last, 0)

(***************************************************************************)
(* JSONUTF8StringFilter.  A filter is the record of its members:           *)
(* str (the output), is_valid, codepoint, state, surpair.                  *)
(***************************************************************************)
NewFilter ==
  [str |-> <<>>, is_valid |-> TRUE, codepoint |-> 0, state |-> 0, surpair |-> 0]

append_codepoint(str, cp) ==
  IF cp <= 127 THEN Append(str, cp)
  ELSE IF cp <= 2047 THEN
    str \o << BitOr(192, Shr(cp, 6)),
              BitOr(128, BitAnd(cp, 63)) >>
  ELSE IF cp <= 65535 THEN
    str \o << BitOr(224, Shr(cp, 12)),
              BitOr(128, BitAnd(Shr(cp, 6), 63)),
              BitOr(128, BitAnd(cp, 63)) >>
  ELSE IF cp <= 2097151 THEN
    str \o << BitOr(240, Shr(cp, 18)),
              BitOr(128, BitAnd(Shr(cp, 12), 63)),
              BitOr(128, BitAnd(Shr(cp, 6), 63)),
              BitOr(128, BitAnd(cp, 63)) >>
  ELSE str

\* The codepoint that push_back_u computes from an open surrogate pair.
SurrogateCodepoint(surpair, lo) ==
  BitOr(BitOr(65536, Shl(surpair - 55296, 10)), lo - 56320)

\* A push_back_u that encodes a low surrogate no high surrogate came before.
push_back_u_Lone(f, cp) ==
  LET f1 == IF f.state # 0 THEN [f EXCEPT !.is_valid = FALSE] ELSE f IN
  IF cp >= 55296 /\ cp < 56320 THEN
    IF f1.surpair # 0 THEN [f1 EXCEPT !.is_valid = FALSE]
    ELSE [f1 EXCEPT !.surpair = cp]
  ELSE IF cp >= 56320 /\ cp < 57344 /\ f1.surpair # 0 THEN
    [f1 EXCEPT !.str = append_codepoint(@, SurrogateCodepoint(f1.surpair, cp)),
               !.surpair = 0]
  ELSE
    IF f1.surpair # 0 THEN [f1 EXCEPT !.is_valid = FALSE]
    ELSE [f1 EXCEPT !.str = append_codepoint(@, cp)]

\* A push_back_u that lets a codepoint through while a surrogate is pending.
push_back_u_NoOrphan(f, cp) ==
  LET f1 == IF f.state # 0 THEN [f EXCEPT !.is_valid = FALSE] ELSE f IN
  IF cp >= 55296 /\ cp < 56320 THEN [f1 EXCEPT !.surpair = cp]
  ELSE IF cp >= 56320 /\ cp < 57344 THEN
    IF f1.surpair # 0
      THEN [f1 EXCEPT !.str = append_codepoint(@, SurrogateCodepoint(f1.surpair, cp)),
                      !.surpair = 0]
      ELSE [f1 EXCEPT !.is_valid = FALSE]
  ELSE [f1 EXCEPT !.str = append_codepoint(@, cp)]

push_back_u(f, cp) ==
  LET f1 == IF f.state # 0 THEN [f EXCEPT !.is_valid = FALSE] ELSE f IN
  IF cp >= 55296 /\ cp < 56320 THEN
    IF f1.surpair # 0 THEN [f1 EXCEPT !.is_valid = FALSE]
    ELSE [f1 EXCEPT !.surpair = cp]
  ELSE IF cp >= 56320 /\ cp < 57344 THEN
    IF f1.surpair # 0
      THEN [f1 EXCEPT !.str = append_codepoint(@, SurrogateCodepoint(f1.surpair, cp)),
                      !.surpair = 0]
      ELSE [f1 EXCEPT !.is_valid = FALSE]
  ELSE
    IF f1.surpair # 0 THEN [f1 EXCEPT !.is_valid = FALSE]
    ELSE [f1 EXCEPT !.str = append_codepoint(@, cp)]

\* A push_back that takes any byte as the continuation of an open sequence.
push_back_AnyTail(f, ch) ==
  IF f.state = 0 THEN
    IF ch < 128 THEN [f EXCEPT !.str = Append(@, ch)]
    ELSE IF ch < 192 THEN [f EXCEPT !.is_valid = FALSE]
    ELSE IF ch < 224 THEN [f EXCEPT !.codepoint = Shl(BitAnd(ch, 31), 6), !.state = 6]
    ELSE IF ch < 240 THEN [f EXCEPT !.codepoint = Shl(BitAnd(ch, 15), 12), !.state = 12]
    ELSE IF ch < 248 THEN [f EXCEPT !.codepoint = Shl(BitAnd(ch, 7), 18), !.state = 18]
    ELSE [f EXCEPT !.is_valid = FALSE]
  ELSE
    LET st == f.state - 6
        cp == BitOr(f.codepoint, Shl(BitAnd(ch, 63), st))
        f1 == [f EXCEPT !.state = st, !.codepoint = cp]
    IN IF st = 0 THEN push_back_u(f1, cp) ELSE f1

push_back(f, ch) ==
  IF f.state = 0 THEN
    IF ch < 128 THEN [f EXCEPT !.str = Append(@, ch)]
    ELSE IF ch < 192 THEN [f EXCEPT !.is_valid = FALSE]
    ELSE IF ch < 224 THEN [f EXCEPT !.codepoint = Shl(BitAnd(ch, 31), 6), !.state = 6]
    ELSE IF ch < 240 THEN [f EXCEPT !.codepoint = Shl(BitAnd(ch, 15), 12), !.state = 12]
    ELSE IF ch < 248 THEN [f EXCEPT !.codepoint = Shl(BitAnd(ch, 7), 18), !.state = 18]
    ELSE [f EXCEPT !.is_valid = FALSE]
  ELSE
    LET st == f.state - 6
        cp == BitOr(f.codepoint, Shl(BitAnd(ch, 63), st))
        f1 == [f EXCEPT !.is_valid = IF BitAnd(ch, 192) # 128 THEN FALSE ELSE @,
                        !.state = st,
                        !.codepoint = cp]
    IN IF st = 0 THEN push_back_u(f1, cp) ELSE f1

\* A finalize that judges the filter by what is open at the end alone.
finalize_Fresh(f) == [f EXCEPT !.is_valid = (f.state = 0 /\ f.surpair = 0)]

\* A finalize that looks at neither state nor surpair.
finalize_AsIs(f) == f

\* finalize(): the filter after the call; its is_valid is the value returned.
finalize(f) ==
  IF f.state # 0 \/ f.surpair # 0 THEN [f EXCEPT !.is_valid = FALSE] ELSE f

(***************************************************************************)
(* getJsonToken(tokenVal, consumed, raw, end): the token at offset raw of  *)
(* buffer b, as the record [tok, consumed, tokenVal].  tokenVal.clear()    *)
(* and consumed = 0 come first, so every early return carries them.        *)
(***************************************************************************)
\* A tokenizer that never sets consumed.
TokResult_NoAdvance(tok, consumed, tokenVal) ==
  [tok |-> tok, consumed |-> 0, tokenVal |-> tokenVal]

TokResult(tok, consumed, tokenVal) ==
  [tok |-> tok, consumed |-> consumed, tokenVal |-> tokenVal]

\* while (raw < end && json_isspace(*raw)) ++raw;
RECURSIVE SkipSpace(_, _)
SkipSpace(b, raw) ==
  IF raw < Len(b) /\ json_isspace(At(b, raw)) THEN SkipSpace(b, raw + 1) ELSE raw

\* while (raw < end && json_isdigit(*raw)) ++raw;
RECURSIVE SkipDigits(_, _)
SkipDigits(b, raw) ==
  IF raw < Len(b) /\ json_isdigit(At(b, raw)) THEN SkipDigits(b, raw + 1) ELSE raw

\* A comparison that ends where the input ends.
strncmp_eq_UpToEnd(b, raw, kw) ==
  \A i \in 1..Len(kw) : raw + i - 1 < Len(b) => b[raw + i] = kw[i]

\* 0 == std::strncmp(raw, kw, n), kw a literal of n bytes without a '\0'.
strncmp_eq(b, raw, kw) ==
  \A i \in 1..Len(kw) : At(b, raw + i - 1) = kw[i]

\* case 'n': case 't': case 'f':
TokenKeyword(b, rawStart, raw) ==
  IF strncmp_eq(b, raw, S(<<"n", "u", "l", "l">>))
    THEN TokResult("JTOK_KW_NULL", (raw + 4) - rawStart, <<>>)
  ELSE IF strncmp_eq(b, raw, S(<<"t", "r", "u", "e">>))
    THEN TokResult("JTOK_KW_TRUE", (raw + 4) - rawStart, <<>>)
  ELSE IF strncmp_eq(b, raw, S(<<"f", "a", "l", "s", "e">>))
    THEN TokResult("JTOK_KW_FALSE", (raw + 5) - rawStart, <<>>)
  ELSE TokResult("JTOK_ERR", 0, <<>>)

\* A tokenizer that lets digits follow a leading 0.
LeadingZero_Allowed(b, firstDigit) == FALSE

\* Line 324: *firstDigit == '0' && firstDigit + 1 < end && json_isdigit(firstDigit[1])
LeadingZero(b, firstDigit) ==
  /\ At(b, firstDigit) = Ord["0"]
  /\ firstDigit + 1 < Len(b)
  /\ json_isdigit(At(b, firstDigit + 1))

\* case '-': case '0' ... '9': (lines 306-363)
TokenNumber(b, rawStart, first) ==
  LET end == Len(b)
      firstIsMinus == At(b, first) = Ord["-"]
      firstDigit == first + (IF firstIsMinus THEN 1 ELSE 0)
      err == TokResult("JTOK_ERR", 0, <<>>)
  IN
  IF LeadingZero(b, firstDigit)
    THEN err
  ELSE
  LET raw1 == first + 1 IN
  IF firstIsMinus /\ (raw1 >= end \/ ~json_isdigit(At(b, raw1)))
    THEN err
  ELSE
  LET raw2 == SkipDigits(b, raw1)
      hasFrac == raw2 < end /\ At(b, raw2) = Ord["."]
  IN
  IF hasFrac /\ (raw2 + 1 >= end \/ ~json_isdigit(At(b, raw2 + 1)))
    THEN err
  ELSE
  LET raw3 == IF hasFrac THEN SkipDigits(b, raw2 + 1) ELSE raw2
      hasExp == raw3 < end /\ (At(b, raw3) = Ord["e"] \/ At(b, raw3) = Ord["E"])
      raw4 == IF hasExp /\ raw3 + 1 < end
                 /\ (At(b, raw3 + 1) = Ord["-"] \/ At(b, raw3 + 1) = Ord["+"])
              THEN raw3 + 2 ELSE raw3 + 1
  IN
  IF hasExp /\ (raw4 >= end \/ ~json_isdigit(At(b, raw4)))
    THEN err
  ELSE
  LET raw5 == IF hasExp THEN SkipDigits(b, raw4) ELSE raw3
  IN TokResult("JTOK_NUMBER", raw5 - rawStart, SubSeq(b, first + 1, raw5))

(***************************************************************************)
(* case '"': the while (true) loop over the bytes of the literal, raw at   *)
(* the next byte to read and writer the filter so far.  Returns the offset *)
(* after the closing quote and the filter, or ok = FALSE where the source  *)
(* returns JTOK_ERR from inside the loop.                                  *)
(***************************************************************************)
RECURSIVE StringLoop(_, _, _)
StringLoop(b, raw, writer) ==
  LET end == Len(b)
      bad == [ok |-> FALSE, raw |-> raw, writer |-> writer]
  IN
  IF raw >= end \/ At(b, raw) < 32 THEN bad
  ELSE IF At(b, raw) = Ord["\\"] THEN
    LET r == raw + 1 IN
    IF r >= end THEN bad
    ELSE LET c == At(b, r) IN
      IF c = Ord["\""] THEN StringLoop(b, r + 1, push_back(writer, Ord["\""]))
      ELSE IF c = Ord["\\"] THEN StringLoop(b, r + 1, push_back(writer, Ord["\\"]))
      ELSE IF c = Ord["/"] THEN StringLoop(b, r + 1, push_back(writer, Ord["/"]))
      ELSE IF c = Ord["b"] THEN StringLoop(b, r + 1, push_back(writer, Ord["BS"]))
      ELSE IF c = Ord["f"] THEN StringLoop(b, r + 1, push_back(writer, Ord["FF"]))
      ELSE IF c = Ord["n"] THEN StringLoop(b, r + 1, push_back(writer, Ord["LF"]))
      ELSE IF c = Ord["r"] THEN StringLoop(b, r + 1, push_back(writer, Ord["CR"]))
      ELSE IF c = Ord["t"] THEN StringLoop(b, r + 1, push_back(writer, Ord["TAB"]))
      ELSE IF c = Ord["u"] THEN
        IF r + 1 + 4 >= end THEN bad
        ELSE LET h == hextouint(b, r + 1, r + 1 + 4) IN
          IF h.first # r + 1 + 4 THEN bad
          ELSE StringLoop(b, r + 4 + 1, push_back_u(writer, h.out))
      ELSE bad
  ELSE IF At(b, raw) = Ord["\""] THEN
    [ok |-> TRUE, raw |-> raw + 1, writer |-> writer]
  ELSE StringLoop(b, raw + 1, push_back(writer, At(b, raw)))

TokenString(b, rawStart, raw) ==
  LET l == StringLoop(b, raw + 1, NewFilter) IN
  IF ~l.ok THEN TokResult("JTOK_ERR", 0, <<>>)
  ELSE IF ~finalize(l.writer).is_valid THEN TokResult("JTOK_ERR", 0, <<>>)
  ELSE TokResult("JTOK_STRING", l.raw - rawStart, l.writer.str)

getJsonToken(b, rawStart) ==
  LET raw == SkipSpace(b, rawStart)
      c == At(b, raw)
  IN
  IF raw >= Len(b) THEN TokResult("JTOK_NONE", 0, <<>>)
  ELSE IF c = Ord["{"] THEN TokResult("JTOK_OBJ_OPEN", (raw + 1) - rawStart, <<>>)
  ELSE IF c = Ord["}"] THEN TokResult("JTOK_OBJ_CLOSE", (raw + 1) - rawStart, <<>>)
  ELSE IF c = Ord["["] THEN TokResult("JTOK_ARR_OPEN", (raw + 1) - rawStart, <<>>)
  ELSE IF c = Ord["]"] THEN TokResult("JTOK_ARR_CLOSE", (raw + 1) - rawStart, <<>>)
  ELSE IF c = Ord[":"] THEN TokResult("JTOK_COLON", (raw + 1) - rawStart, <<>>)
  ELSE IF c = Ord[","] THEN TokResult("JTOK_COMMA", (raw + 1) - rawStart, <<>>)
  ELSE IF c \in {Ord["n"], Ord["t"], Ord["f"]} THEN TokenKeyword(b, rawStart, raw)
  ELSE IF c = Ord["-"] \/ json_isdigit(c) THEN TokenNumber(b, rawStart, raw)
  ELSE IF c = Ord["\""] THEN TokenString(b, rawStart, raw)
  ELSE TokResult("JTOK_ERR", 0, <<>>)

(***************************************************************************)
(* The bytes getJsonToken looks at.  Inspected(b, rawStart) is the set of  *)
(* offsets the call dereferences; the offset Len(b) is `end`, where a      *)
(* QByteArray keeps its '\0'.                                              *)
(***************************************************************************)

\* The offsets from a to z that lie before end: the dereferences the source
\* guards with raw < end.
Before(b, a, z) == {p \in a..z : p < Len(b)}

\* std::strncmp(raw, kw, n) compares byte by byte and stops behind the first
\* pair that differs: it is told n, not end.
StrncmpReads(b, raw, kw) ==
  LET differ == {i \in 1..Len(kw) : At(b, raw + i - 1) # kw[i]}
      last == IF differ = {} THEN Len(kw)
              ELSE CHOOSE i \in differ : \A j \in differ : i <= j
  IN raw..(raw + last - 1)

\* Lines 291-302: the comparisons that are made, in their order.
KeywordReads(b, raw) ==
  LET null == S(<<"n", "u", "l", "l">>)
      true == S(<<"t", "r", "u", "e">>)
      false == S(<<"f", "a", "l", "s", "e">>)
  IN StrncmpReads(b, raw, null)
       \cup (IF strncmp_eq(b, raw, null) THEN {}
             ELSE StrncmpReads(b, raw, true)
                    \cup (IF strncmp_eq(b, raw, true) THEN {}
                          ELSE StrncmpReads(b, raw, false)))

\* Lines 327-360: the last offset the scan of a number asks for, each of
\* these dereferences being made only if that offset is before end.
NumberStop(b, first) ==
  LET end == Len(b)
      firstIsMinus == At(b, first) = Ord["-"]
      raw1 == first + 1
  IN
  IF firstIsMinus /\ (raw1 >= end \/ ~json_isdigit(At(b, raw1))) THEN raw1
  ELSE
  LET raw2 == SkipDigits(b, raw1)
      hasFrac == raw2 < end /\ At(b, raw2) = Ord["."]
  IN
  IF hasFrac /\ (raw2 + 1 >= end \/ ~json_isdigit(At(b, raw2 + 1))) THEN raw2 + 1
  ELSE
  LET raw3 == IF hasFrac THEN SkipDigits(b, raw2 + 1) ELSE raw2
      hasExp == raw3 < end /\ (At(b, raw3) = Ord["e"] \/ At(b, raw3) = Ord["E"])
      raw4 == IF hasExp /\ raw3 + 1 < end
                 /\ (At(b, raw3 + 1) = Ord["-"] \/ At(b, raw3 + 1) = Ord["+"])
              THEN raw3 + 2 ELSE raw3 + 1
  IN
  IF ~hasExp THEN raw3
  ELSE IF raw4 >= end \/ ~json_isdigit(At(b, raw4)) THEN raw4
  ELSE SkipDigits(b, raw4)

\* Lines 320-360.  *first and *firstDigit (lines 321, 325) are read without
\* a test against end; firstDigit[1] only after firstDigit + 1 < end.
NumberReads(b, first) ==
  LET firstDigit == first + (IF At(b, first) = Ord["-"] THEN 1 ELSE 0)
      opening == {first, firstDigit}
                   \cup (IF At(b, firstDigit) = Ord["0"]
                         THEN Before(b, firstDigit + 1, firstDigit + 1) ELSE {})
  IN IF LeadingZero(b, firstDigit) THEN opening
     ELSE opening \cup Before(b, first + 1, NumberStop(b, first))

\* Lines 374-416: the last offset the loop over a string literal reads, raw
\* being the offset at the top of the loop.
RECURSIVE StringStop(_, _)
StringStop(b, raw) ==
  LET end == Len(b) IN
  IF raw >= end THEN raw - 1
  ELSE IF At(b, raw) < 32 THEN raw
  ELSE IF At(b, raw) = Ord["\\"] THEN
    LET r == raw + 1 IN
    IF r >= end THEN raw
    ELSE LET c == At(b, r) IN
      IF c \in {Ord["\""], Ord["\\"], Ord["/"], Ord["b"], Ord["f"], Ord["n"], Ord["r"],
                Ord["t"]}
        THEN StringStop(b, r + 1)
      ELSE IF c = Ord["u"] THEN
        IF r + 1 + 4 >= end THEN r
        ELSE LET h == hextouint(b, r + 1, r + 1 + 4) IN
          IF h.first # r + 1 + 4 THEN h.first
          ELSE StringStop(b, r + 4 + 1)
      ELSE r
  ELSE IF At(b, raw) = Ord["\""] THEN raw
  ELSE StringStop(b, raw + 1)

\* getJsonToken(tokenVal, consumed, raw, end), lines 247-432.
Inspected(b, rawStart) ==
  LET raw == SkipSpace(b, rawStart)
      c == At(b, raw)
      space == Before(b, rawStart, raw)
  IN
  IF raw >= Len(b) THEN space
  ELSE IF c \in {Ord["n"], Ord["t"], Ord["f"]} THEN space \cup KeywordReads(b, raw)
  ELSE IF c = Ord["-"] \/ json_isdigit(c) THEN space \cup NumberReads(b, raw)
  ELSE IF c = Ord["\""] THEN space \cup (raw..StringStop(b, raw + 1))
  ELSE space

(***************************************************************************)
(* struct Container.  The source nests Containers by value (values,        *)
(* entries) and keeps pointers to the open ones in `stack`.  The model     *)
(* keeps all Containers of one parse in the sequence `heap`, heap[1] being *)
(* `root`; a child is held as its index in heap, and a Container* is such  *)
(* an index.  values is a sequence of indices; entries is a sequence of    *)
(* records [first |-> key bytes, second |-> index].                        *)
(***************************************************************************)
Container(typ, data, values, entries) ==
  [typ |-> typ, data |-> data, values |-> values, entries |-> entries]

\* Container{} (typ = Null) and the results of setArr(), setObj(), setBool(b).
NullContainer == Container("Null", <<>>, <<>>, <<>>)
setArr == Container("Arr", <<>>, <<>>, <<>>)
setObj == Container("Obj", <<>>, <<>>, <<>>)
setBool(b) == Container(IF b THEN "BoolTrue" ELSE "BoolFalse", <<>>, <<>>, <<>>)

(***************************************************************************)
(* The locals of Json::detail::parse that one iteration of its loop reads  *)
(* and writes are gathered in a record L = [expectMask, stack, heap].      *)
(* expectMask is the set of the EXP_ bits that are set.  Every case of the *)
(* switch is an operator from L to [L EXCEPT ...] with a field `rc`: 0 to  *)
(* go on, else the source line of the `return false` that was taken.       *)
(***************************************************************************)
ExpectBits == {"OBJ_NAME", "COLON", "ARR_VALUE", "VALUE", "NOT_VALUE"}

Locals(expectMask_, stack_, heap_, rc_) ==
  [expectMask |-> expectMask_, stack |-> stack_, heap |-> heap_, rc |-> rc_]

back(seq) == seq[Len(seq)]

\* A pop that takes the bottom of the stack away.
pop_back_Front(seq) == Tail(seq)

pop_back(seq) == SubSeq(seq, 1, Len(seq) - 1)

isValueOpen(t) == jsonTokenIsValue(t) \/ t = "JTOK_OBJ_OPEN" \/ t = "JTOK_ARR_OPEN"

\* Checks that let every token pass.
CheckExpect_Lax(mask, t) ==
  [rc |-> 0, mask |-> mask \ {"VALUE", "ARR_VALUE", "COLON", "NOT_VALUE"}]

\* Lines 558-588: the checks of the token against the expectation bits.
CheckExpect(mask, t) ==
  LET first ==
        IF "VALUE" \in mask THEN
          IF ~isValueOpen(t) THEN [rc |-> 560, mask |-> mask]
          ELSE [rc |-> 0, mask |-> mask \ {"VALUE"}]
        ELSE IF "ARR_VALUE" \in mask THEN
          IF ~(isValueOpen(t) \/ t = "JTOK_ARR_CLOSE") THEN [rc |-> 566, mask |-> mask]
          ELSE [rc |-> 0, mask |-> mask \ {"ARR_VALUE"}]
        ELSE IF "OBJ_NAME" \in mask THEN
          IF ~(t = "JTOK_OBJ_CLOSE" \/ t = "JTOK_STRING") THEN [rc |-> 573, mask |-> mask]
          ELSE [rc |-> 0, mask |-> mask]
        ELSE IF "COLON" \in mask THEN
          IF t # "JTOK_COLON" THEN [rc |-> 577, mask |-> mask]
          ELSE [rc |-> 0, mask |-> mask \ {"COLON"}]
        ELSE IF "COLON" \notin mask /\ t = "JTOK_COLON" THEN [rc |-> 581, mask |-> mask]
        ELSE [rc |-> 0, mask |-> mask]
  IN
  IF first.rc # 0 THEN first
  ELSE IF "NOT_VALUE" \in first.mask THEN
    IF isValueOpen(t) THEN [rc |-> 586, mask |-> first.mask]
    ELSE [rc |-> 0, mask |-> first.mask \ {"NOT_VALUE"}]
  ELSE first

\* case JTOK_OBJ_OPEN: case JTOK_ARR_OPEN: (lines 592-630)
\* A test of the depth that never fails.
DepthExceeded_Never(stack) == FALSE

DepthExceeded(stack) == Len(stack) > MAX_JSON_DEPTH

CaseOpen(L, t) ==
  LET utyp == IF t = "JTOK_OBJ_OPEN" THEN "Obj" ELSE "Arr"
      fresh == IF utyp = "Obj" THEN setObj ELSE setArr
      bit == IF utyp = "Obj" THEN "OBJ_NAME" ELSE "ARR_VALUE"
      pushed ==
        IF L.stack = <<>> THEN
          [L EXCEPT !.heap[1] = fresh, !.stack = <<1>>]
        ELSE LET top == back(L.stack) IN
          IF L.heap[top].typ = "Obj" THEN
            IF L.heap[top].entries = <<>> THEN [L EXCEPT !.rc = 607]
            ELSE LET second == back(L.heap[top].entries).second IN
              [L EXCEPT !.heap[second] = fresh, !.stack = Append(@, second)]
          ELSE LET new == Len(L.heap) + 1 IN
            [L EXCEPT !.heap = Append([@ EXCEPT ![top].values = Append(@, new)], fresh),
                      !.stack = Append(@, new)]
  IN
  IF pushed.rc # 0 THEN pushed
  ELSE IF DepthExceeded(pushed.stack) THEN [pushed EXCEPT !.rc = 623]
  ELSE [pushed EXCEPT !.expectMask = @ \cup {bit}]

\* The case of a closing bracket without clearExpect(OBJ_NAME).
CaseClose_KeepName(L, t, last_tok_) ==
  IF L.stack = <<>> \/ last_tok_ = "JTOK_COMMA" THEN [L EXCEPT !.rc = 635]
  ELSE LET utyp == IF t = "JTOK_OBJ_CLOSE" THEN "Obj" ELSE "Arr"
           top == back(L.stack)
       IN IF utyp # L.heap[top].typ THEN [L EXCEPT !.rc = 640]
          ELSE [L EXCEPT !.stack = pop_back(@),
                         !.expectMask = @ \cup {"NOT_VALUE"}]

\* The case of a closing bracket without the test of last_tok.
CaseClose_AfterComma(L, t, last_tok_) ==
  IF L.stack = <<>> THEN [L EXCEPT !.rc = 635]
  ELSE LET utyp == IF t = "JTOK_OBJ_CLOSE" THEN "Obj" ELSE "Arr"
           top == back(L.stack)
       IN IF utyp # L.heap[top].typ THEN [L EXCEPT !.rc = 640]
          ELSE [L EXCEPT !.stack = pop_back(@),
                         !.expectMask = (@ \ {"OBJ_NAME"}) \cup {"NOT_VALUE"}]

\* case JTOK_OBJ_CLOSE: case JTOK_ARR_CLOSE: (lines 632-646)
CaseClose(L, t, last_tok_) ==
  IF L.stack = <<>> \/ last_tok_ = "JTOK_COMMA" THEN [L EXCEPT !.rc = 635]
  ELSE LET utyp == IF t = "JTOK_OBJ_CLOSE" THEN "Obj" ELSE "Arr"
           top == back(L.stack)
       IN IF utyp # L.heap[top].typ THEN [L EXCEPT !.rc = 640]
          ELSE [L EXCEPT !.stack = pop_back(@),
                         !.expectMask = (@ \ {"OBJ_NAME"}) \cup {"NOT_VALUE"}]

\* case JTOK_COLON: (lines 648-658)
CaseColon(L) ==
  IF L.stack = <<>> THEN [L EXCEPT !.rc = 650]
  ELSE IF L.heap[back(L.stack)].typ # "Obj" THEN [L EXCEPT !.rc = 654]
  ELSE [L EXCEPT !.expectMask = @ \cup {"VALUE"}]

\* case JTOK_COMMA: (lines 660-670)
CaseComma(L, last_tok_) ==
  IF L.stack = <<>> \/ last_tok_ = "JTOK_COMMA" \/ last_tok_ = "JTOK_ARR_OPEN"
    THEN [L EXCEPT !.rc = 662]
  ELSE IF L.heap[back(L.stack)].typ = "Obj"
    THEN [L EXCEPT !.expectMask = @ \cup {"OBJ_NAME"}]
  ELSE [L EXCEPT !.expectMask = @ \cup {"ARR_VALUE"}]

(***************************************************************************)
(* The code shared by the keyword, number and string cases: tmpVal becomes *)
(* the root (and the switch is left by `break`, before NOT_VALUE is set),  *)
(* or fills the value of the last entry of the object on top, or is        *)
(* appended to the array on top.  line is that of the case's return false. *)
(***************************************************************************)
StoreValue(L, tmpVal, line) ==
  IF L.stack = <<>> THEN [L EXCEPT !.heap[1] = tmpVal]
  ELSE LET top == back(L.stack) IN
    IF L.heap[top].typ = "Obj" THEN
      IF L.heap[top].entries = <<>> THEN [L EXCEPT !.rc = line]
      ELSE [L EXCEPT !.heap[back(L.heap[top].entries).second] = tmpVal,
                     !.expectMask = @ \cup {"NOT_VALUE"}]
    ELSE LET new == Len(L.heap) + 1 IN
      [L EXCEPT !.heap = Append([@ EXCEPT ![top].values = Append(@, new)], tmpVal),
                !.expectMask = @ \cup {"NOT_VALUE"}]

\* case JTOK_KW_NULL: case JTOK_KW_TRUE: case JTOK_KW_FALSE: (lines 672-709)
CaseKeyword(L, t) ==
  LET tmpVal == IF t = "JTOK_KW_TRUE" THEN setBool(TRUE)
                ELSE IF t = "JTOK_KW_FALSE" THEN setBool(FALSE)
                ELSE NullContainer
  IN StoreValue(L, tmpVal, 699)

\* case JTOK_NUMBER: (lines 711-733)
CaseNumber(L, tokenVal_) ==
  StoreValue(L, Container("Num", tokenVal_, <<>>, <<>>), 723)

(***************************************************************************)
(* case JTOK_STRING: (lines 735-765).  With OBJ_NAME expected the string   *)
(* is a key: a new entry with a Null value is appended to the Container on *)
(* top of the stack.  stack.back() of an empty stack is undefined there;   *)
(* rc = -1 marks it.                                                       *)
(***************************************************************************)
CaseString(L, tokenVal_) ==
  IF "OBJ_NAME" \in L.expectMask THEN
    IF L.stack = <<>> THEN [L EXCEPT !.rc = -1]
    ELSE LET top == back(L.stack)
             new == Len(L.heap) + 1
         IN [L EXCEPT
               !.heap = Append([@ EXCEPT ![top].entries =
                                   Append(@, [first |-> tokenVal_, second |-> new])],
                               NullContainer),
               !.expectMask = ((@ \ {"OBJ_NAME"}) \cup {"COLON"}) \cup {"NOT_VALUE"}]
  ELSE StoreValue(L, Container("Str", tokenVal_, <<>>, <<>>), 754)

\* The switch (tok) of lines 590-769.
Switch(L, t, tokenVal_, last_tok_) ==
  IF t \in {"JTOK_OBJ_OPEN", "JTOK_ARR_OPEN"} THEN CaseOpen(L, t)
  ELSE IF t \in {"JTOK_OBJ_CLOSE", "JTOK_ARR_CLOSE"} THEN CaseClose(L, t, last_tok_)
  ELSE IF t = "JTOK_COLON" THEN CaseColon(L)
  ELSE IF t = "JTOK_COMMA" THEN CaseComma(L, last_tok_)
  ELSE IF t \in {"JTOK_KW_NULL", "JTOK_KW_TRUE", "JTOK_KW_FALSE"} THEN CaseKeyword(L, t)
  ELSE IF t = "JTOK_NUMBER" THEN CaseNumber(L, tokenVal_)
  ELSE IF t = "JTOK_STRING" THEN CaseString(L, tokenVal_)
  ELSE [L EXCEPT !.rc = 768]

(***************************************************************************)
(* One iteration of the do ... while loop, lines 546-770, after the token  *)
(* T = getJsonToken(...) was read: the locals after it, rc as above.       *)
(***************************************************************************)
LoopBody(L, T, last_tok_) ==
  IF T.tok = "JTOK_NONE" \/ T.tok = "JTOK_ERR" THEN [L EXCEPT !.rc = 553]
  ELSE LET chk == CheckExpect(L.expectMask, T.tok) IN
    IF chk.rc # 0 THEN [L EXCEPT !.rc = chk.rc]
    ELSE Switch([L EXCEPT !.expectMask = chk.mask], T.tok, T.tokenVal, last_tok_)

(***************************************************************************)
(* 64-bit integers.  An unsigned 64-bit value is the tuple of its four     *)
(* 16-bit limbs, most significant first.  A signed 64-bit value is the     *)
(* record [neg, mag] of its sign and magnitude (zero has neg = FALSE).     *)
(***************************************************************************)
LimbBase == 2 ^ 16

U64Zero == <<0, 0, 0, 0>>

\* 2^63, the magnitude of LLONG_MIN.
TwoTo63 == <<32768, 0, 0, 0>>

\* v * 10 + d as [v |-> the low 64 bits, carry |-> the bits above them].
MulAdd10(v, d) ==
  LET t0 == v[4] * 10 + d
      t1 == v[3] * 10 + (t0 \div LimbBase)
      t2 == v[2] * 10 + (t1 \div LimbBase)
      t3 == v[1] * 10 + (t2 \div LimbBase)
  IN [v |-> <<t3 % LimbBase, t2 % LimbBase, t1 % LimbBase, t0 % LimbBase>>,
      carry |-> t3 \div LimbBase]

\* a < b on limb tuples.
LimbLess(a, b) ==
  \E i \in 1..4 : a[i] < b[i] /\ \A j \in 1..(i - 1) : a[j] = b[j]

(***************************************************************************)
(* The magnitude of the decimal digits at offsets from..Len(data)-1 of     *)
(* data: ok is FALSE if there is none, if a byte is no digit, or if the    *)
(* value does not fit in 64 bits.                                          *)
(***************************************************************************)
RECURSIVE ParseMagnitude(_, _, _)
ParseMagnitude(data, p, acc) ==
  IF p >= Len(data) THEN [ok |-> TRUE, v |-> acc]
  ELSE IF ~json_isdigit(At(data, p)) THEN [ok |-> FALSE, v |-> U64Zero]
  ELSE LET m == MulAdd10(acc, At(data, p) - Ord["0"]) IN
    IF m.carry # 0 THEN [ok |-> FALSE, v |-> U64Zero]
    ELSE ParseMagnitude(data, p + 1, m.v)

\* QByteArray::toULongLong(&ok) on a lexeme of the tokenizer (base 10).
toULongLong(data) ==
  IF data = <<>> \/ ~json_isdigit(At(data, 0)) THEN [ok |-> FALSE, v |-> U64Zero]
  ELSE ParseMagnitude(data, 0, U64Zero)

\* QByteArray::toLongLong(&ok): the range is -2^63 .. 2^63 - 1.
toLongLong(data) ==
  LET neg == At(data, 0) = Ord["-"]
      from == IF neg THEN 1 ELSE 0
      m == IF from >= Len(data) THEN [ok |-> FALSE, v |-> U64Zero]
           ELSE ParseMagnitude(data, from, U64Zero)
      fits == IF neg THEN ~LimbLess(TwoTo63, m.v) ELSE LimbLess(m.v, TwoTo63)
  IN IF m.ok /\ fits
       THEN [ok |-> TRUE, v |-> [neg |-> neg /\ m.v # U64Zero, mag |-> m.v]]
       ELSE [ok |-> FALSE, v |-> [neg |-> FALSE, mag |-> U64Zero]]

(***************************************************************************)
(* Doubles.  A finite double is held as the decimal it is nearest to, in   *)
(* scientific form: [neg, sig, exp] stands for (-)d1.d2...dn * 10^exp with *)
(* sig = <<d1, ..., dn>> free of leading and trailing zeros; zero is       *)
(* sig = <<>>, exp = 0.  Decimals of up to 15 significant digits and the   *)
(* doubles nearest to them correspond one to one (DBL_DIG), which is the   *)
(* range the model's inputs stay in.                                       *)
(***************************************************************************)
RECURSIVE StripLeadingZeros(_)
StripLeadingZeros(d) ==
  IF d # <<>> /\ d[1] = 0 THEN StripLeadingZeros(Tail(d)) ELSE d

RECURSIVE StripTrailingZeros(_)
StripTrailingZeros(d) ==
  IF d # <<>> /\ d[Len(d)] = 0 THEN StripTrailingZeros(SubSeq(d, 1, Len(d) - 1)) ELSE d

DigitsOf(bs) == [i \in 1..Len(bs) |-> bs[i] - Ord["0"]]

\* The number a short run of decimal digits denotes; runs of more than 6
\* digits saturate (no exponent that long leaves the result in range).
RECURSIVE DecValue(_, _)
DecValue(d, acc) ==
  IF d = <<>> THEN acc
  ELSE IF acc >= 1000000 THEN acc
  ELSE DecValue(Tail(d), 10 * acc + d[1])

\* a < b on digit sequences read as d1.d2d3... (a missing digit is 0).
DigitsLess(a, b) ==
  \E i \in 1..Len(b) :
     /\ (IF i <= Len(a) THEN a[i] ELSE 0) < b[i]
     /\ \A j \in 1..(i - 1) : j <= Len(a) /\ a[j] = b[j]

\* DBL_MAX + half an ulp starts 1.7976931348623158e308; half of the least
\* denormal, the largest value that rounds to zero, starts 2.47e-324.
DblOverflows(sig, exp) ==
  exp > 308 \/ (exp = 308 /\ ~DigitsLess(sig, <<1, 7, 9, 7, 6, 9, 3, 1, 3, 4, 8, 6, 2, 3, 1, 5, 8>>))

DblUnderflows(sig, exp) ==
  exp < -324 \/ (exp = -324 /\ DigitsLess(sig, <<2, 4, 8>>))

(***************************************************************************)
(* QByteArray::toDouble(&ok) on a lexeme -?I(.F)?([eE][+-]?X)?: ok is      *)
(* FALSE if the lexeme is not of that form, if the value overflows to      *)
(* infinity, or if a value with a non-zero digit underflows to zero.       *)
(***************************************************************************)
\* The integer digits of the lexeme: offsets from..to-1.
IntPart(data) ==
  LET i0 == IF At(data, 0) = Ord["-"] THEN 1 ELSE 0
  IN [from |-> i0, to |-> SkipDigits(data, i0)]

\* The fraction digits after a '.' at offset i1, if there is one.
FracPart(data, i1) ==
  IF At(data, i1) = Ord["."]
    THEN [has |-> TRUE, from |-> i1 + 1, to |-> SkipDigits(data, i1 + 1)]
    ELSE [has |-> FALSE, from |-> i1, to |-> i1]

\* The exponent digits after an 'e' or 'E' at offset f1, if there is one.
ExpPart(data, f1) ==
  LET hasSign == At(data, f1 + 1) = Ord["-"] \/ At(data, f1 + 1) = Ord["+"]
      x0 == IF hasSign THEN f1 + 2 ELSE f1 + 1
  IN IF At(data, f1) = Ord["e"] \/ At(data, f1) = Ord["E"]
       THEN [has |-> TRUE, neg |-> At(data, f1 + 1) = Ord["-"],
             from |-> x0, to |-> SkipDigits(data, x0)]
       ELSE [has |-> FALSE, neg |-> FALSE, from |-> f1, to |-> f1]

\* The double that the digits of a well-formed lexeme and its exponent e
\* denote.
DoubleOf(neg, intDigits, fracDigits, e) ==
  LET all == intDigits \o fracDigits
      lead == Len(all) - Len(StripLeadingZeros(all))
      sig == StripTrailingZeros(StripLeadingZeros(all))
      exp == (Len(intDigits) - 1 - lead) + e
      zero == [neg |-> neg, sig |-> <<>>, exp |-> 0]
  IN
  IF sig = <<>> THEN [ok |-> TRUE, v |-> zero]
  ELSE IF DblOverflows(sig, exp) \/ DblUnderflows(sig, exp) THEN [ok |-> FALSE, v |-> zero]
  ELSE [ok |-> TRUE, v |-> [neg |-> neg, sig |-> sig, exp |-> exp]]

\* The double of a lexeme whose parts are I, F and X.
DoubleFrom(data, I, F, X) ==
  LET neg == I.from = 1
      wellFormed == /\ I.to > I.from
                    /\ F.has => F.to > F.from
                    /\ X.has => X.to > X.from
                    /\ X.to = Len(data)
      e == IF X.has THEN DecValue(DigitsOf(SubSeq(data, X.from + 1, X.to)), 0) ELSE 0
  IN
  IF ~wellFormed THEN [ok |-> FALSE, v |-> [neg |-> neg, sig |-> <<>>, exp |-> 0]]
  ELSE DoubleOf(neg,
                DigitsOf(SubSeq(data, I.from + 1, I.to)),
                IF F.has THEN DigitsOf(SubSeq(data, F.from + 1, F.to)) ELSE <<>>,
                IF X.neg THEN -e ELSE e)

toDouble_frac(data, I, F) == DoubleFrom(data, I, F, ExpPart(data, F.to))

toDouble_int(data, I) == toDouble_frac(data, I, FracPart(data, I.to))

toDouble(data) == toDouble_int(data, IntPart(data))

(***************************************************************************)
(* QString.  A QString is held as the sequence of its code points.         *)
(* QString::fromUtf8 decodes well-formed UTF-8 and replaces every byte     *)
(* that starts no well-formed sequence by U+FFFD.  The overload for a      *)
(* QByteArray of Qt 5, the version Json.h names, is                        *)
(*   fromUtf8(str.data(), qstrnlen(str.constData(), str.size()))           *)
(* and so decodes the bytes before the first '\0' only.                    *)
(***************************************************************************)
IsCont(b, p) == p < Len(b) /\ At(b, p) >= 128 /\ At(b, p) < 192

\* The sequence at offset p as [n |-> its length, cp |-> its code point],
\* n = 0 if no well-formed sequence starts there.
Utf8SeqAt(b, p) ==
  LET c == At(b, p)
      c1 == At(b, p + 1) % 64
      c2 == At(b, p + 2) % 64
      c3 == At(b, p + 3) % 64
      cp2 == (c % 32) * 64 + c1
      cp3 == (c % 16) * 4096 + c1 * 64 + c2
      cp4 == (c % 8) * 262144 + c1 * 4096 + c2 * 64 + c3
  IN
  IF c < 128 THEN [n |-> 1, cp |-> c]
  ELSE IF c >= 194 /\ c < 224 /\ IsCont(b, p + 1) THEN [n |-> 2, cp |-> cp2]
  ELSE IF c >= 224 /\ c < 240 /\ IsCont(b, p + 1) /\ IsCont(b, p + 2)
          /\ cp3 >= 2048 /\ ~(cp3 >= 55296 /\ cp3 < 57344)
    THEN [n |-> 3, cp |-> cp3]
  ELSE IF c >= 240 /\ c < 245 /\ IsCont(b, p + 1) /\ IsCont(b, p + 2) /\ IsCont(b, p + 3)
          /\ cp4 >= 65536 /\ cp4 <= 1114111
    THEN [n |-> 4, cp |-> cp4]
  ELSE [n |-> 0, cp |-> 65533]

RECURSIVE fromUtf8_loop(_, _)
fromUtf8_loop(b, p) ==
  IF p >= Len(b) THEN <<>>
  ELSE LET q == Utf8SeqAt(b, p) IN
    <<q.cp>> \o fromUtf8_loop(b, p + (IF q.n = 0 THEN 1 ELSE q.n))

\* qstrnlen(b.constData(), b.size())
qstrnlen(b) ==
  IF \E i \in 1..Len(b) : b[i] = 0
    THEN (CHOOSE i \in 1..Len(b) : b[i] = 0 /\ \A j \in 1..(i - 1) : b[j] # 0) - 1
    ELSE Len(b)

fromUtf8(b) == fromUtf8_loop(SubSeq(b, 1, qstrnlen(b)), 0)

\* The UTF-16 code units of a QString, which operator< of QString (the
\* order of the keys of a QVariantMap) compares.
RECURSIVE Utf16Units(_)
Utf16Units(q) ==
  IF q = <<>> THEN <<>>
  ELSE (IF q[1] < 65536 THEN <<q[1]>>
        ELSE <<55296 + ((q[1] - 65536) \div 1024), 56320 + ((q[1] - 65536) % 1024)>>)
       \o Utf16Units(Tail(q))

\* a < b, lexicographically, on sequences of numbers.
SeqLess(a, b) ==
  \/ Len(a) < Len(b) /\ \A j \in 1..Len(a) : a[j] = b[j]
  \/ \E i \in 1..Len(a) :
        i <= Len(b) /\ a[i] < b[i] /\ \A j \in 1..(i - 1) : a[j] = b[j]

QStringLess(a, b) == SeqLess(Utf16Units(a), Utf16Units(b))

(***************************************************************************)
(* QVariant.  A QVariant tree is held like the Container tree: a sequence  *)
(* of nodes, node 1 the root, children as indices.  A node is [t, v]:      *)
(*   Invalid (QVariant{}), Bool, ULongLong, LongLong, Double, QString,     *)
(*   QVariantList (v: indices), QVariantMap (v: [key, val] by key order).  *)
(***************************************************************************)
QVariantNode(t, v) == [t |-> t, v |-> v]

InvalidNode == QVariantNode("Invalid", 0)

\* QVariant{}
QVariantInvalid == <<InvalidNode>>

\* An insertion that leaves the value of a key that is already there.
RECURSIVE MapInsert_KeepFirst(_, _, _)
MapInsert_KeepFirst(vm, key, val) ==
  IF vm = <<>> THEN <<[key |-> key, val |-> val]>>
  ELSE IF vm[1].key = key THEN vm
  ELSE IF QStringLess(key, vm[1].key) THEN <<[key |-> key, val |-> val]>> \o vm
  ELSE <<vm[1]>> \o MapInsert_KeepFirst(Tail(vm), key, val)

\* vm[key] = val on a QVariantMap held as the sequence of its pairs in key
\* order: replaces the value of an equal key, else inserts.
RECURSIVE MapInsert(_, _, _)
MapInsert(vm, key, val) ==
  IF vm = <<>> THEN <<[key |-> key, val |-> val]>>
  ELSE IF vm[1].key = key THEN <<[key |-> key, val |-> val]>> \o Tail(vm)
  ELSE IF QStringLess(key, vm[1].key) THEN <<[key |-> key, val |-> val]>> \o vm
  ELSE <<vm[1]>> \o MapInsert(Tail(vm), key, val)

\* for (const auto & [key, cont] : entries) vm[QString::fromUtf8(key)] = ...
RECURSIVE MapOfEntries(_, _, _)
MapOfEntries(entries, i, vm) ==
  IF i > Len(entries) THEN vm
  ELSE MapOfEntries(entries, i + 1,
                    MapInsert(vm, fromUtf8(entries[i].first), entries[i].second))

(***************************************************************************)
(* Container::toVariant, lines 463-516, for one Container c: the node it   *)
(* yields and threw = TRUE where the source throws Json::ParseError.       *)
(***************************************************************************)
\* A selection that takes every lexeme without '.', 'e', 'E' as unsigned.
NumberKind_Unsigned(data) ==
  IF \E i \in 1..Len(data) : data[i] \in {Ord["."], Ord["e"], Ord["E"]} THEN "Double"
  ELSE "ULongLong"

\* Lines 475-481: which conversion a lexeme is given to.
NumberKind(data) ==
  IF \E i \in 1..Len(data) : data[i] \in {Ord["."], Ord["e"], Ord["E"]} THEN "Double"
  ELSE IF data[1] = Ord["-"] THEN "LongLong"
  ELSE "ULongLong"

\* Lines 475-481: the QVariant of the conversion's result r, or the throw.
NumResult(kind, r) ==
  IF ~r.ok THEN [threw |-> TRUE, node |-> InvalidNode]
  ELSE [threw |-> FALSE, node |-> QVariantNode(kind, r.v)]

NumConvert(kind, data) ==
  IF kind = "Double" THEN toDouble(data)
  ELSE IF kind = "LongLong" THEN toLongLong(data)
  ELSE toULongLong(data)

NumOfKind(kind, data) == NumResult(kind, NumConvert(kind, data))

NumToVariant(data) ==
  IF data = <<>> THEN [threw |-> TRUE, node |-> InvalidNode]
  ELSE NumOfKind(NumberKind(data), data)

NodeToVariant(c) ==
  IF c.typ = "Null" THEN [threw |-> FALSE, node |-> InvalidNode]
  ELSE IF c.typ = "Num" THEN NumToVariant(c.data)
  ELSE IF c.typ = "BoolTrue" THEN [threw |-> FALSE, node |-> QVariantNode("Bool", TRUE)]
  ELSE IF c.typ = "BoolFalse" THEN [threw |-> FALSE, node |-> QVariantNode("Bool", FALSE)]
  ELSE IF c.typ = "Str" THEN [threw |-> FALSE, node |-> QVariantNode("QString", fromUtf8(c.data))]
  ELSE IF c.typ = "Arr" THEN [threw |-> FALSE, node |-> QVariantNode("QVariantList", c.values)]
  ELSE [threw |-> FALSE,
        node |-> QVariantNode("QVariantMap", MapOfEntries(c.entries, 1, <<>>))]

(***************************************************************************)
(* root.toVariant(): the recursion over the tree visits every Container of *)
(* the parse (each one is a child of another, or the root), so the result  *)
(* is the node-wise image of heap, and it throws if any node does.         *)
(***************************************************************************)
NodesToVariant(conv_) ==
  IF \E i \in 1..Len(conv_) : conv_[i].threw
    THEN [threw |-> TRUE, ret |-> QVariantInvalid]
    ELSE [threw |-> FALSE, ret |-> [i \in 1..Len(conv_) |-> conv_[i].node]]

toVariant(heap_) ==
  NodesToVariant([i \in 1..Len(heap_) |-> NodeToVariant(heap_[i])])

(***************************************************************************)
(* State.                                                                  *)
(*   bytes, eof, fed   the caller's buffer, revealed as parse reads it     *)
(*   pc                where Json::detail::parse stands                    *)
(*   raw, tok, last_tok, expectMask, stack, heap   its locals              *)
(*   out               its out-parameter                                   *)
(*   ret, site         what it returned, and the line of that return       *)
(*   ref               the reference recognizer of the JSON grammar that   *)
(*                     reads the same tokens (not part of the program)     *)
(* and, for the specifications of single functions further down:           *)
(*   token             the record getJsonToken returned                    *)
(*   conv              what the conversion of a number lexeme gave         *)
(*   writer, pushed    a JSONUTF8StringFilter, and the call last made on   *)
(*                     it: the filter before the call and the argument     *)
(*   value             the QVariant given to toUtf8                        *)
(* and, for the functions of Json.h:                                       *)
(*   option, result    the ParseOption given to parseUtf8, and how the     *)
(*                     call ended                                          *)
(*   compact, serOption   the arguments of toUtf8                          *)
(*   json              what toUtf8 did: threw, or the bytes it returned    *)
(*   first             ret and out of an earlier parse, kept to compare    *)
(*   locale            the decimal point of LC_NUMERIC, of the process     *)
(*   threads           where each thread stands in checkLocale             *)
(* and, to count with:                                                     *)
(*   iters             the iterations of the loop of parse so far (not     *)
(*                     part of the program)                                *)
(***************************************************************************)
VARIABLES bytes, eof, fed, pc, raw, tok, last_tok, expectMask, stack, heap,
          out, ret, site, ref, token, conv, writer, pushed, value,
          option, result, compact, serOption, json, first,
          locale, threads, iters

vars == <<bytes, eof, fed, pc, raw, tok, last_tok, expectMask, stack, heap,
          out, ret, site, ref, token, conv, writer, pushed, value,
          option, result, compact, serOption, json, first,
          locale, threads, iters>>

guard == <<locale, threads>>

api == <<option, result, compact, serOption, json, first, guard>>

aux == <<token, conv, writer, pushed, value, api>>

env == <<bytes, eof, fed>>
locals == <<raw, tok, last_tok, expectMask, stack, heap, iters>>

\* The most pieces of input one run is fed.
MaxLen == 6

(***************************************************************************)
(* The pieces the buffer is built from: each is one token, well-formed or  *)
(* not, or white space.  BigNumber is 2^64, a number of the JSON grammar.  *)
(***************************************************************************)
BigNumber == S(<<"1","8","4","4","6","7","4","4","0","7","3","7","0","9","5","5","1","6","1","6">>)

Chunks ==
  { S(<<"{">>), S(<<"}">>), S(<<"[">>), S(<<"]">>), S(<<":">>), S(<<",">>),
    S(<<"t", "r", "u", "e">>), S(<<"1">>), S(<<"\"", "a", "\"">>),
    S(<<" ">>), S(<<"x">>), BigNumber }

\* n copies of unit.
Repeat(unit, n) == [i \in 1..(n * Len(unit)) |-> unit[((i - 1) % Len(unit)) + 1]]

\* Buffers that open MAX_JSON_DEPTH - 2 containers: arrays, objects, a mix.
DeepSeeds ==
  { Repeat(S(<<"[">>), MAX_JSON_DEPTH - 2),
    Repeat(S(<<"{", "\"", "a", "\"", ":">>), MAX_JSON_DEPTH - 2),
    Repeat(S(<<"[", "{", "\"", "a", "\"", ":">>), (MAX_JSON_DEPTH - 2) \div 2) }

\* After a deep seed a run is fed this many pieces at most: enough to open
\* one container more than MAX_JSON_DEPTH.
DeepFeeds == MAX_JSON_DEPTH - (MAX_JSON_DEPTH - 2) + 1

\* A QVariant the caller's variable may hold when parse is called.
StaleOut == <<QVariantNode("Bool", TRUE)>>

(***************************************************************************)
(* The reference recognizer: the pushdown automaton of the JSON grammar    *)
(* over token kinds, with the nesting limit.  st is its control state, stk *)
(* the kinds of the open containers.                                       *)
(***************************************************************************)
RefInit == [st |-> "start", prev |-> "start", stk |-> <<>>, depth |-> 0]

RefAfterValue(stk) == IF stk = <<>> THEN "end" ELSE "after_elem"

RefReject(r) == [r EXCEPT !.st = "reject"]

\* depth counts the containers the tokens have opened at once, also the one
\* beyond the limit that makes the recognizer reject.
RefOpen(r, kind) ==
  IF Len(r.stk) >= MAX_JSON_DEPTH THEN [r EXCEPT !.st = "reject", !.depth = Len(r.stk) + 1]
  ELSE [r EXCEPT !.st = IF kind = "Obj" THEN "obj_first" ELSE "arr_first",
                 !.stk = Append(r.stk, kind),
                 !.depth = IF Len(r.stk) + 1 > @ THEN Len(r.stk) + 1 ELSE @]

RefClose(r, kind) ==
  IF r.stk # <<>> /\ back(r.stk) = kind
    THEN [r EXCEPT !.st = RefAfterValue(pop_back(r.stk)), !.stk = pop_back(r.stk)]
    ELSE RefReject(r)

RefValue(r, t) ==
  IF jsonTokenIsValue(t) THEN [r EXCEPT !.st = RefAfterValue(r.stk)]
  ELSE IF t = "JTOK_ARR_OPEN" THEN RefOpen(r, "Arr")
  ELSE IF t = "JTOK_OBJ_OPEN" THEN RefOpen(r, "Obj")
  ELSE RefReject(r)

RefMove(r, t) ==
  IF t = "JTOK_ERR" THEN RefReject(r)
  ELSE IF t = "JTOK_NONE" THEN [r EXCEPT !.st = IF r.st = "end" THEN "accept" ELSE "reject"]
  ELSE IF r.st = "end" THEN RefReject(r)
  ELSE IF r.st \in {"start", "arr_next", "after_colon"} THEN RefValue(r, t)
  ELSE IF r.st = "arr_first" THEN
    IF t = "JTOK_ARR_CLOSE" THEN RefClose(r, "Arr") ELSE RefValue(r, t)
  ELSE IF r.st = "obj_first" THEN
    IF t = "JTOK_OBJ_CLOSE" THEN RefClose(r, "Obj")
    ELSE IF t = "JTOK_STRING" THEN [r EXCEPT !.st = "after_key"]
    ELSE RefReject(r)
  ELSE IF r.st = "obj_next" THEN
    IF t = "JTOK_STRING" THEN [r EXCEPT !.st = "after_key"] ELSE RefReject(r)
  ELSE IF r.st = "after_key" THEN
    IF t = "JTOK_COLON" THEN [r EXCEPT !.st = "after_colon"] ELSE RefReject(r)
  ELSE \* after_elem
    IF t = "JTOK_COMMA"
      THEN [r EXCEPT !.st = IF back(r.stk) = "Obj" THEN "obj_next" ELSE "arr_next"]
    ELSE IF t = "JTOK_ARR_CLOSE" THEN RefClose(r, "Arr")
    ELSE IF t = "JTOK_OBJ_CLOSE" THEN RefClose(r, "Obj")
    ELSE RefReject(r)

\* prev is the control state the last token was read in.
RefStep(r, t) ==
  IF r.st \in {"reject", "accept"} THEN r
  ELSE [RefMove(r, t) EXCEPT !.prev = r.st]

(***************************************************************************)
(* The buffer.  parse reads it front to back and returns at the first      *)
(* token it rejects, so the buffer is revealed piece by piece: a piece is  *)
(* appended only when parse has read all there is but white space, and     *)
(* parse reads on only when a token or the buffer's end is there to read.  *)
(* A piece that would change a number token already read (a digit, '.',    *)
(* 'e' or 'E' right behind it) is not appended.  With that the token at    *)
(* raw is the same in the revealed buffer as in every buffer it grows      *)
(* into, and a run is the run of parse on the final buffer.                *)
(***************************************************************************)
Starved == SkipSpace(bytes, raw) >= Len(bytes)

CanRead == eof \/ ~Starved

ExtendsNumber(c) ==
  /\ tok = "JTOK_NUMBER"
  /\ raw = Len(bytes)
  /\ (json_isdigit(c[1]) \/ c[1] \in {Ord["."], Ord["e"], Ord["E"]})

Feed(c) ==
  /\ pc \in {"loop", "final"}
  /\ ~eof
  /\ Starved
  /\ fed < MaxLen
  /\ ~ExtendsNumber(c)
  /\ bytes' = bytes \o c
  /\ fed' = fed + 1
  /\ UNCHANGED <<eof, pc, locals, out, ret, site, ref, aux>>

\* The closing brackets of all open containers, innermost first, once
\* MAX_JSON_DEPTH containers are open.
Closers ==
  [i \in 1..Len(stack) |->
     IF heap[stack[Len(stack) + 1 - i]].typ = "Obj" THEN Ord["}"] ELSE Ord["]"]]

FeedClosers ==
  /\ pc = "loop"
  /\ ~eof
  /\ Starved
  /\ Len(stack) = MAX_JSON_DEPTH
  /\ bytes' = bytes \o Closers
  /\ UNCHANGED <<eof, fed, pc, locals, out, ret, site, ref, aux>>

\* The buffer ends here.
EndOfInput ==
  /\ pc \in {"loop", "final"}
  /\ ~eof
  /\ Starved
  /\ eof' = TRUE
  /\ UNCHANGED <<bytes, fed, pc, locals, out, ret, site, ref, aux>>

(***************************************************************************)
(* Json::detail::parse(out, bytes).                                        *)
(***************************************************************************)
\* An entry that leaves the caller's variable as it is.
OutKept(o) == o

\* Line 535: out = QVariant{}.
OutOnEntry(o) == QVariantInvalid

\* Lines 530-545: the locals, and the clearing of out.
Enter ==
  /\ pc = "call"
  /\ pc' = "loop"
  /\ expectMask' = {}
  /\ out' = OutOnEntry(out)
  /\ heap' = <<NullContainer>>
  /\ stack' = <<>>
  /\ tok' = "JTOK_NONE"
  /\ last_tok' = "JTOK_NONE"
  /\ raw' = 0
  /\ iters' = 0
  /\ UNCHANGED <<env, ret, site, ref, aux>>

\* One iteration of the loop, lines 546-770: the token T was read and the
\* body left the locals L.
ParseCommit(T, L) ==
  /\ last_tok' = tok
  /\ tok' = T.tok
  /\ raw' = IF T.tok \in {"JTOK_NONE", "JTOK_ERR"} THEN raw ELSE raw + T.consumed
  /\ iters' = iters + 1
  /\ expectMask' = L.expectMask
  /\ stack' = L.stack
  /\ heap' = L.heap
  /\ ref' = RefStep(ref, T.tok)
  /\ site' = L.rc
  /\ ret' = IF L.rc = 0 THEN "none" ELSE IF L.rc = -1 THEN "undefined" ELSE "false"
  /\ pc' = IF L.rc # 0 THEN "done" ELSE IF L.stack = <<>> THEN "final" ELSE "loop"

ParseToken(T) == ParseCommit(T, LoopBody(Locals(expectMask, stack, heap, 0), T, tok))

ParseIter ==
  /\ pc = "loop"
  /\ CanRead
  /\ ParseToken(getJsonToken(bytes, raw))
  /\ UNCHANGED <<env, out, aux>>

\* A final check that lets anything follow the root value.
AnythingFollows(t) == TRUE

\* Lines 773-775: the token after the root value must be JTOK_NONE.
NothingFollows(t) == t = "JTOK_NONE"

\* The returns of lines 775, 782 and 785, for the token t that follows the
\* root value and the result v of root.toVariant().
FinalReturn(t, v) ==
  /\ tok' = t
  /\ ref' = RefStep(ref, t)
  /\ IF ~NothingFollows(t) THEN ret' = "false" /\ site' = 775 /\ out' = out
     ELSE IF v.threw THEN ret' = "false" /\ site' = 782 /\ out' = out
     ELSE ret' = "true" /\ site' = 785 /\ out' = v.ret

\* Lines 772-785: nothing may follow; then out = root.toVariant().
Final ==
  /\ pc = "final"
  /\ CanRead
  /\ FinalReturn(getJsonToken(bytes, raw).tok, toVariant(heap))
  /\ pc' = "done"
  /\ UNCHANGED <<env, raw, last_tok, expectMask, stack, heap, iters, aux>>

\* The variables a specification of a single function leaves alone.
NoToken == TokResult("JTOK_NONE", 0, <<>>)
NoConv == [threw |-> FALSE, node |-> InvalidNode]
NoPush == [f |-> NewFilter, cp |-> 0]

IdleParse ==
  /\ eof = TRUE
  /\ fed = 0
  /\ out = QVariantInvalid
  /\ raw = 0
  /\ iters = 0
  /\ tok = "JTOK_NONE"
  /\ last_tok = "JTOK_NONE"
  /\ expectMask = {}
  /\ stack = <<>>
  /\ heap = <<NullContainer>>
  /\ ret = "none"
  /\ site = 0
  /\ ref = RefInit

NoJson == [threw |-> FALSE, bytes |-> <<>>]
NoParse == [ret |-> "none", out |-> QVariantInvalid]

\* The defaults of Json.h, and no call made.
\* The threads that call into the library at the same time.
NumThreads == 3

Threads == 1..NumThreads

\* A thread that is in no call: at, where it stands; autoFix, the argument of
\* checkLocale; saw, the decimal point it read; ok, what checkLocale returned.
IdleThread == [at |-> "idle", autoFix |-> TRUE, saw |-> 0, ok |-> TRUE]

\* LC_NUMERIC has '.' as its decimal point and no thread is in a call.
IdleGuard ==
  /\ locale = 46
  /\ threads = [t \in Threads |-> IdleThread]

IdleApi ==
  /\ option = "AcceptAnyValue"
  /\ result = "none"
  /\ compact = FALSE
  /\ serOption = "BareNullOk"
  /\ json = NoJson
  /\ first = NoParse
  /\ IdleGuard

IdleAux ==
  /\ token = NoToken
  /\ conv = NoConv
  /\ writer = NewFilter
  /\ pushed = NoPush
  /\ value = QVariantInvalid
  /\ IdleApi

Init ==
  /\ bytes \in {<<>>} \cup DeepSeeds
  /\ fed = IF bytes = <<>> THEN 0 ELSE MaxLen - DeepFeeds
  /\ eof = FALSE
  /\ pc = "call"
  /\ out \in {QVariantInvalid, StaleOut}
  /\ raw = 0
  /\ iters = 0
  /\ tok = "JTOK_NONE"
  /\ last_tok = "JTOK_NONE"
  /\ expectMask = {}
  /\ stack = <<>>
  /\ heap = <<NullContainer>>
  /\ ret = "none"
  /\ site = 0
  /\ ref = RefInit
  /\ IdleAux

Next ==
  \/ Enter
  \/ \E c \in Chunks : Feed(c)
  \/ FeedClosers
  \/ EndOfInput
  \/ ParseIter
  \/ Final

Spec == Init /\ [][Next]_vars

(***************************************************************************)
(* Properties of parse, checked under Spec.                                *)
(***************************************************************************)

\* C1: parse returns true if and only if the buffer is exactly one JSON
\* value of the grammar, with white space around it and at most
\* MAX_JSON_DEPTH containers open at once (the reference recognizer accepts).
C1_ParseIffGrammar == pc = "done" => ((ret = "true") <=> (ref.st = "accept"))

\* C2: from the entry on, out is the unset QVariant unless parse returns
\* true: it is the unset QVariant after every failure.
C2_OutNullOnFailure == (pc # "call" /\ ret # "true") => out = QVariantInvalid

\* A failure of the conversion, the last step that can fail, after a
\* container was built.
C2_Witness == pc = "done" /\ ret = "false" /\ site = 782 /\ Len(heap) > 1

\* C4: a buffer that nests containers deeper than MAX_JSON_DEPTH fails, and
\* a buffer of the grammar whose nesting is exactly MAX_JSON_DEPTH deep
\* parses successfully.
C4_DepthLimit ==
  pc = "done" =>
    /\ ref.depth > MAX_JSON_DEPTH => ret = "false"
    /\ (ref.st = "accept" /\ ref.depth = MAX_JSON_DEPTH) => ret = "true"

\* Some byte after the root value is not white space.
NonSpaceAfterRoot == \E i \in (raw + 1)..Len(bytes) : ~json_isspace(bytes[i])

\* C5: the loop is left exactly when the root value is complete; then parse
\* fails at the final check if and only if a byte that is not white space
\* follows the root value, and it never succeeds with such a byte.
C5_NothingAfterRoot ==
  /\ (pc = "final") <=> (ref.st = "end")
  /\ (pc = "done" /\ site \in {775, 782, 785}) => ((site = 775) <=> NonSpaceAfterRoot)
  /\ ret = "true" => ~NonSpaceAfterRoot

\* An object, white space, and a byte that is rejected at the final check.
C5_Witness ==
  /\ pc = "done" /\ site = 775 /\ heap[1].typ = "Obj"
  /\ SkipSpace(bytes, raw) > raw

\* C6: a comma is accepted only directly after a complete element of an
\* open container; it fails after '[', '{', another comma, a key, ':' and
\* outside of containers; a closing bracket directly after a comma fails.
C6_CommaRules ==
  /\ (tok = "JTOK_COMMA" /\ pc # "call") =>
       IF ref.prev = "after_elem" THEN ret = "none" /\ stack # <<>> ELSE ret = "false"
  /\ (tok = "JTOK_COMMA" /\ pc # "call"
        /\ (\/ last_tok \in {"JTOK_ARR_OPEN", "JTOK_OBJ_OPEN", "JTOK_COMMA",
                             "JTOK_COLON", "JTOK_NONE"}
            \/ ref.prev \in {"after_key", "start", "end"})) => ret = "false"
  /\ (tok \in {"JTOK_ARR_CLOSE", "JTOK_OBJ_CLOSE"} /\ last_tok = "JTOK_COMMA")
       => ret = "false"

\* A closing brace directly after the comma that follows an entry.
C6_Witness ==
  /\ pc = "done" /\ tok = "JTOK_OBJ_CLOSE" /\ last_tok = "JTOK_COMMA"
  /\ site = 635 /\ heap[1].entries # <<>>


(***************************************************************************)
(* The number tokenizer and the conversion of number lexemes, on their     *)
(* own: getJsonToken is called at the start of a buffer that begins with   *)
(* '-' or a digit, and the lexeme of a JTOK_NUMBER is converted as         *)
(* Container::toVariant converts it.                                       *)
(***************************************************************************)

\* The longest buffer that is made of every combination of NumAlphabet.
MaxTokLen == 5

NumAlphabet ==
  {Ord["-"], Ord["+"], Ord["0"], Ord["1"], Ord["9"], Ord["."], Ord["e"], Ord["E"], Ord["x"]}

NumStart == {Ord["-"], Ord["0"], Ord["1"], Ord["9"]}

ShortInputs ==
  {b \in UNION {[1..n -> NumAlphabet] : n \in 1..MaxTokLen} : b[1] \in NumStart}

\* All but the last digit of 2^64 - 1 and of 2^63 - 1.
U64Stem == S(<<"1","8","4","4","6","7","4","4","0","7","3","7","0","9","5","5","1","6","1">>)
I64Stem == S(<<"9","2","2","3","3","7","2","0","3","6","8","5","4","7","7","5","8","0">>)

Digits == {S(<<"0">>), S(<<"1">>), S(<<"2">>), S(<<"3">>), S(<<"4">>),
           S(<<"5">>), S(<<"6">>), S(<<"7">>), S(<<"8">>), S(<<"9">>)}

\* Integers around the ends of the 64-bit ranges, and longer ones.
LongIntegers ==
  LET mags == {stem \o d : stem \in {U64Stem, I64Stem}, d \in Digits}
                \cup {U64Stem \o d \o e : d \in {S(<<"5">>)}, e \in {S(<<"0">>), S(<<"9">>)}}
  IN mags \cup {S(<<"-">>) \o m : m \in mags}

\* Doubles around the ends of the range of finite doubles.
EdgeDoubles ==
  LET mags ==
        { S(<<"1","e","3","0","8">>), S(<<"2","e","3","0","8">>),
          S(<<"1",".","7","9","e","3","0","8">>), S(<<"1",".","8","e","+","3","0","8">>),
          S(<<"1","7","9","e","3","0","6">>), S(<<"1","E","3","0","9">>),
          S(<<"5","e","-","3","2","4">>), S(<<"2","e","-","3","2","4">>),
          S(<<"1","e","-","4","0","0">>), S(<<"0","e","4","0","0">>),
          S(<<"0",".","0","0","2","5","e","3">>), S(<<"1","2","0",".","5","0">>) }
  IN mags \cup {S(<<"-">>) \o m : m \in mags}

NumberInputs == ShortInputs \cup LongIntegers \cup EdgeDoubles

InitNumber ==
  /\ bytes \in NumberInputs
  /\ pc = "lex"
  /\ IdleParse
  /\ IdleAux

\* tok = getJsonToken(tokenVal, consumed, raw, end) at the start of bytes.
Tokenize ==
  /\ pc = "lex"
  /\ token' = getJsonToken(bytes, 0)
  /\ pc' = IF token'.tok = "JTOK_NUMBER" THEN "convert" ELSE "lexed"
  /\ UNCHANGED <<env, locals, out, ret, site, ref, conv, writer, pushed, value, api>>

\* Lines 470-487, on the lexeme of the token.
Convert ==
  /\ pc = "convert"
  /\ conv' = NumToVariant(token.tokenVal)
  /\ pc' = "converted"
  /\ UNCHANGED <<env, locals, out, ret, site, ref, token, writer, pushed, value, api>>

NextNumber == Tokenize \/ Convert

SpecNumber == InitNumber /\ [][NextNumber]_vars

(***************************************************************************)
(* The grammar of numbers, written down without reference to the          *)
(* tokenizer: an optional '-', then 0 or a digit from 1 to 9 with digits   *)
(* after it, then optionally '.' and digits, then optionally 'e' or 'E',   *)
(* an optional sign, and digits.                                           *)
(***************************************************************************)
IsDigit(c) == c \in 48..57

AllDigits(s) == s # <<>> /\ \A i \in 1..Len(s) : IsDigit(s[i])

IsIntPart(s) ==
  \/ s = <<48>>
  \/ AllDigits(s) /\ s[1] # 48

IsFracPart(s) == s = <<>> \/ (s[1] = 46 /\ AllDigits(Tail(s)))

IsExpPart(s) ==
  \/ s = <<>>
  \/ /\ s[1] \in {101, 69}
     /\ \/ AllDigits(Tail(s))
        \/ Len(s) >= 2 /\ s[2] \in {43, 45} /\ AllDigits(SubSeq(s, 3, Len(s)))

IsSignedInt(s) ==
  \E i \in 0..1 :
     /\ i <= Len(s)
     /\ i = 1 => s[1] = 45
     /\ IsIntPart(SubSeq(s, i + 1, Len(s)))

IsIntFrac(s) ==
  \E j \in 0..Len(s) : IsSignedInt(SubSeq(s, 1, j)) /\ IsFracPart(SubSeq(s, j + 1, Len(s)))

IsNumberLexeme(s) ==
  \E k \in 0..Len(s) : IsIntFrac(SubSeq(s, 1, k)) /\ IsExpPart(SubSeq(s, k + 1, Len(s)))

\* The length of the longest prefix of b that P holds of, 0 if there is none.
Longest(b, P(_)) ==
  LET ns == {n \in 1..Len(b) : P(SubSeq(b, 1, n))}
  IN IF ns = {} THEN 0 ELSE CHOOSE n \in ns : \A m \in ns : m <= n

\* The byte at position i of b (from 1), 0 beyond its end.
ByteAt(b, i) == IF i \in 1..Len(b) THEN b[i] ELSE 0

\* The four errors of a buffer that begins with '-' or a digit.
ZeroThenDigit(b) ==
  LET f == IF ByteAt(b, 1) = 45 THEN 2 ELSE 1
  IN ByteAt(b, f) = 48 /\ IsDigit(ByteAt(b, f + 1))

MinusThenNoDigit(b) == ByteAt(b, 1) = 45 /\ ~IsDigit(ByteAt(b, 2))

DotThenNoDigit(b) ==
  LET m == Longest(b, IsSignedInt)
  IN m > 0 /\ ByteAt(b, m + 1) = 46 /\ ~IsDigit(ByteAt(b, m + 2))

ExpThenNoDigit(b) ==
  LET m == Longest(b, IsIntFrac)
      signed == ByteAt(b, m + 2) \in {43, 45}
  IN /\ m > 0
     /\ ByteAt(b, m + 1) \in {101, 69}
     /\ ~IsDigit(ByteAt(b, IF signed THEN m + 3 ELSE m + 2))

NumberError(b) ==
  ZeroThenDigit(b) \/ MinusThenNoDigit(b) \/ DotThenNoDigit(b) \/ ExpThenNoDigit(b)

\* C7: at '-' or a digit getJsonToken returns JTOK_ERR in the four error
\* cases, and otherwise JTOK_NUMBER with the longest prefix of the grammar
\* of numbers as the lexeme, consumed and copied byte for byte.
C7_NumberToken ==
  pc # "lex" =>
    IF NumberError(bytes) THEN token.tok = "JTOK_ERR"
    ELSE /\ token.tok = "JTOK_NUMBER"
         /\ token.consumed = Longest(bytes, IsNumberLexeme)
         /\ token.consumed > 0
         /\ token.tokenVal = SubSeq(bytes, 1, token.consumed)

\* '-0' with an exponent that has a sign.
C7_Witness ==
  /\ pc # "lex" /\ token.tok = "JTOK_NUMBER"
  /\ token.tokenVal = S(<<"-", "0", "e", "+", "1">>)

(***************************************************************************)
(* The values of integer lexemes, as decimal numerals: the numeral of a    *)
(* 64-bit value comes from dividing it by ten again and again, and two     *)
(* numerals without leading zeros compare by length, then digit by digit.  *)
(***************************************************************************)
\* v divided by 10: [q |-> the quotient, r |-> the remainder].
DivMod10(v) ==
  LET c1 == v[1]
      c2 == (c1 % 10) * LimbBase + v[2]
      c3 == (c2 % 10) * LimbBase + v[3]
      c4 == (c3 % 10) * LimbBase + v[4]
  IN [q |-> <<c1 \div 10, c2 \div 10, c3 \div 10, c4 \div 10>>, r |-> c4 % 10]

RECURSIVE NumeralFrom(_)
NumeralFrom(v) ==
  IF v = U64Zero THEN <<>>
  ELSE LET d == DivMod10(v) IN Append(NumeralFrom(d.q), 48 + d.r)

Numeral(v) == IF v = U64Zero THEN <<48>> ELSE NumeralFrom(v)

\* a <= b on numerals without leading zeros.
NumeralLeq(a, b) ==
  \/ Len(a) < Len(b)
  \/ Len(a) = Len(b) /\ ~SeqLess(b, a)

\* 2^64 - 1 and 2^63.
U64MaxNumeral == U64Stem \o <<53>>
I64MinMagNumeral == I64Stem \o <<56>>

HasFracOrExp(s) == \E i \in 1..Len(s) : s[i] \in {46, 101, 69}

\* The lexeme of the token is an integer of the grammar.
IntegerLexeme == token.tok = "JTOK_NUMBER" /\ ~HasFracOrExp(token.tokenVal)
Negated == token.tokenVal[1] = 45
Magnitude == IF Negated THEN Tail(token.tokenVal) ELSE token.tokenVal
IsZero(s) == s = <<48>>

\* The conversion gave this kind of QVariant, of this magnitude.
Yields(kind, neg, numeral) ==
  /\ ~conv.threw
  /\ conv.node.t = kind
  /\ IF kind = "LongLong"
       THEN conv.node.v.neg = neg /\ Numeral(conv.node.v.mag) = numeral
       ELSE Numeral(conv.node.v) = numeral

\* A conversion that succeeded is the one the form of the lexeme selects.
KindByForm ==
  ~conv.threw =>
    conv.node.t = IF HasFracOrExp(token.tokenVal) THEN "Double"
                  ELSE IF Negated THEN "LongLong" ELSE "ULongLong"

\* C8, as stated: the kind follows the form of the lexeme, every integer
\* lexeme with a value from 0 to 2^64 - 1 yields a ULongLong of that value
\* and every one with a value from -2^63 to -1 a LongLong of that value.
C8_AsStated ==
  pc = "converted" =>
    /\ KindByForm
    /\ (IntegerLexeme /\ (~Negated \/ IsZero(Magnitude))
          /\ NumeralLeq(Magnitude, U64MaxNumeral))
         => Yields("ULongLong", FALSE, Magnitude)
    /\ (IntegerLexeme /\ Negated /\ ~IsZero(Magnitude)
          /\ NumeralLeq(Magnitude, I64MinMagNumeral))
         => Yields("LongLong", TRUE, Magnitude)

\* C8, amended: the kind follows the form of the lexeme; every integer
\* lexeme without '-' and with a value up to 2^64 - 1 yields a ULongLong of
\* that value, and every integer lexeme with '-' and a value from -2^63 to
\* 0 a LongLong of that value: '-0' yields the LongLong 0.
C8_NumberKinds ==
  pc = "converted" =>
    /\ KindByForm
    /\ (IntegerLexeme /\ ~Negated /\ NumeralLeq(Magnitude, U64MaxNumeral))
         => Yields("ULongLong", FALSE, Magnitude)
    /\ (IntegerLexeme /\ Negated /\ NumeralLeq(Magnitude, I64MinMagNumeral))
         => Yields("LongLong", ~IsZero(Magnitude), Magnitude)

\* -2^63, the least lexeme of the signed range.
C8_Witness ==
  /\ pc = "converted"
  /\ token.tokenVal = <<45>> \o I64MinMagNumeral
  /\ conv.node.t = "LongLong"

\* C9: the conversion of a lexeme that getJsonToken returned as a
\* JTOK_NUMBER never fails.
C9_ConversionNeverFails == pc = "converted" => ~conv.threw

(***************************************************************************)
(* JSONUTF8StringFilter on its own: a filter is given UTF-16 code units,   *)
(* as the \u escapes of a string literal give them through push_back_u.    *)
(***************************************************************************)

\* The most calls one filter is given.
MaxPush == 3

\* Offsets into the 1024 high and the 1024 low surrogates.
HighOffsets == {0, 1, 52, 63, 64, 127, 128, 1023}
LowOffsets == {0, 1, 286, 1023}

\* High surrogates, low surrogates, and 'A', U+00E9, U+20AC.
CodeUnits ==
  {55296 + k : k \in HighOffsets} \cup {56320 + k : k \in LowOffsets} \cup {65, 233, 8364}

InitFilter ==
  /\ bytes = <<>>
  /\ pc = "filter"
  /\ IdleParse
  /\ IdleAux

\* writer.push_back_u(cp)
PushU(cp) ==
  /\ pc = "filter"
  /\ fed < MaxPush
  /\ fed' = fed + 1
  /\ pushed' = [f |-> writer, cp |-> cp]
  /\ writer' = push_back_u(writer, cp)
  /\ UNCHANGED <<bytes, eof, pc, locals, out, ret, site, ref, token, conv, value, api>>

NextFilter == \E cp \in CodeUnits : PushU(cp)

SpecFilter == InitFilter /\ [][NextFilter]_vars

\* The UTF-8 encoding of a code point from U+10000 to U+10FFFF.
Utf8Of4(cp) ==
  << 240 + (cp \div 262144),
     128 + ((cp \div 4096) % 64),
     128 + ((cp \div 64) % 64),
     128 + (cp % 64) >>

\* The last call gave a low surrogate to a filter with a high one pending.
PairCompleted ==
  /\ fed > 0
  /\ pushed.f.surpair \in 55296..56319
  /\ pushed.cp \in 56320..57343

\* C10: a low surrogate lo that arrives while a high surrogate hi is pending
\* appends the UTF-8 encoding of 0x10000 + ((hi - 0xD800) << 10) +
\* (lo - 0xDC00) and clears the pending surrogate; D834 DD1E appends
\* F0 9D 84 9E.
C10_SurrogatePair ==
  PairCompleted =>
    /\ writer.str = pushed.f.str \o
         Utf8Of4(65536 + (pushed.f.surpair - 55296) * 1024 + (pushed.cp - 56320))
    /\ writer.surpair = 0
    /\ (pushed.f.surpair = 55348 /\ pushed.cp = 56606)
         => writer.str = pushed.f.str \o <<240, 157, 132, 158>>

(***************************************************************************)
(* The serializer.  Json.cpp is not among the sources at hand: serialize   *)
(* follows section 4.5 of the specification, in compact form.              *)
(*   null; true, false; integers in decimal; a double as the shortest      *)
(*   decimal that gives it back, in the notation of printf's %g (the       *)
(*   specification's example is 1.4e-07); a string between quotes with the *)
(*   escapes \" \\ \b \f \n \r \t, \u00XX in lower case for every other    *)
(*   byte below 0x20, and every other byte as it is; [elem,elem]; and      *)
(*   {"k":v,"k":v} with the keys in ascending order of their UTF-8 bytes.  *)
(***************************************************************************)
\* QString::toUtf8 of one code point.
Utf8Of(cp) ==
  IF cp < 128 THEN <<cp>>
  ELSE IF cp < 2048 THEN <<192 + (cp \div 64), 128 + (cp % 64)>>
  ELSE IF cp < 65536
    THEN <<224 + (cp \div 4096), 128 + ((cp \div 64) % 64), 128 + (cp % 64)>>
  ELSE Utf8Of4(cp)

RECURSIVE QString_toUtf8(_)
QString_toUtf8(q) ==
  IF q = <<>> THEN <<>> ELSE Utf8Of(q[1]) \o QString_toUtf8(Tail(q))

HexLower(n) == IF n < 10 THEN 48 + n ELSE 87 + n

EscapeByte(b) ==
  IF b = Ord["\""] THEN S(<<"\\", "\"">>)
  ELSE IF b = Ord["\\"] THEN S(<<"\\", "\\">>)
  ELSE IF b = Ord["BS"] THEN S(<<"\\", "b">>)
  ELSE IF b = Ord["FF"] THEN S(<<"\\", "f">>)
  ELSE IF b = Ord["LF"] THEN S(<<"\\", "n">>)
  ELSE IF b = Ord["CR"] THEN S(<<"\\", "r">>)
  ELSE IF b = Ord["TAB"] THEN S(<<"\\", "t">>)
  ELSE IF b < 32 THEN S(<<"\\", "u", "0", "0">>) \o <<HexLower(b \div 16), HexLower(b % 16)>>
  ELSE <<b>>

RECURSIVE EscapeBytes(_)
EscapeBytes(b) ==
  IF b = <<>> THEN <<>> ELSE EscapeByte(b[1]) \o EscapeBytes(Tail(b))

SerializeString(q) == <<34>> \o EscapeBytes(QString_toUtf8(q)) \o <<34>>

AsBytes(digits) == [i \in 1..Len(digits) |-> 48 + digits[i]]

Zeros(n) == [i \in 1..n |-> 0]

\* The digits of an exponent: two at least.
ExpDigits(e) ==
  IF e < 100 THEN <<48 + (e \div 10), 48 + (e % 10)>>
  ELSE <<48 + (e \div 100), 48 + ((e \div 10) % 10), 48 + (e % 10)>>

(***************************************************************************)
(* A double in the notation of %g: with an exponent if that is below -4 or *)
(* not below the precision, else without.  The precision is between 15 and *)
(* 17 digits; the doubles of the model have exponents that fall on the     *)
(* same side of all three.                                                 *)
(***************************************************************************)
SerializeDouble(d) ==
  LET sign == IF d.neg THEN <<45>> ELSE <<>>
      n == Len(d.sig)
  IN
  IF n = 0 THEN sign \o <<48>>
  ELSE IF d.exp < -4 \/ d.exp >= 16 THEN
    sign \o <<48 + d.sig[1]>>
         \o (IF n > 1 THEN <<46>> \o AsBytes(Tail(d.sig)) ELSE <<>>)
         \o <<101, IF d.exp < 0 THEN 45 ELSE 43>>
         \o ExpDigits(IF d.exp < 0 THEN -d.exp ELSE d.exp)
  ELSE IF d.exp >= 0 THEN
    sign \o AsBytes(SubSeq(d.sig \o Zeros(d.exp + 1 - n), 1, d.exp + 1))
         \o (IF n > d.exp + 1 THEN <<46>> \o AsBytes(SubSeq(d.sig, d.exp + 2, n)) ELSE <<>>)
  ELSE sign \o <<48, 46>> \o AsBytes(Zeros(-d.exp - 1) \o d.sig)

\* The pairs of a map in ascending order of the UTF-8 bytes of their keys.
RECURSIVE InsertByUtf8(_, _)
InsertByUtf8(sorted, e) ==
  IF sorted = <<>> THEN <<e>>
  ELSE IF SeqLess(QString_toUtf8(e.key), QString_toUtf8(sorted[1].key))
    THEN <<e>> \o sorted
  ELSE <<sorted[1]>> \o InsertByUtf8(Tail(sorted), e)

RECURSIVE SortByUtf8(_)
SortByUtf8(entries) ==
  IF entries = <<>> THEN <<>>
  ELSE InsertByUtf8(SortByUtf8(Tail(entries)), entries[1])

\* A serializer for which only a null byte array is null.
ByteArrayIsNull_OnlyNull(a) == a.null

\* A QByteArray [null, data] that is written as null: a null or empty one.
ByteArrayIsNull(a) == a.data = <<>>

\* A QByteArray, its bytes taken as UTF-8.
SerializeByteArray(a) ==
  IF ByteArrayIsNull(a) THEN S(<<"n", "u", "l", "l">>)
  ELSE <<34>> \o EscapeBytes(a.data) \o <<34>>

\* serialize(v, 0): node i of the tree v, in compact form.  The items of a
\* QStringList and of a QByteArrayList are nodes kept in the list itself.
RECURSIVE serialize(_, _)
RECURSIVE SerializeList(_, _, _)
RECURSIVE SerializeMap(_, _, _)
RECURSIVE SerializeItems(_, _)
SerializeItems(items, j) ==
  IF j > Len(items) THEN <<>>
  ELSE (IF j > 1 THEN <<44>> ELSE <<>>) \o serialize(<<items[j]>>, 1)
       \o SerializeItems(items, j + 1)

SerializeList(v, kids, j) ==
  IF j > Len(kids) THEN <<>>
  ELSE (IF j > 1 THEN <<44>> ELSE <<>>) \o serialize(v, kids[j])
       \o SerializeList(v, kids, j + 1)

SerializeMap(v, entries, j) ==
  IF j > Len(entries) THEN <<>>
  ELSE (IF j > 1 THEN <<44>> ELSE <<>>)
       \o SerializeString(entries[j].key) \o <<58>> \o serialize(v, entries[j].val)
       \o SerializeMap(v, entries, j + 1)

serialize(v, i) ==
  LET n == v[i] IN
  IF n.t = "Invalid" THEN S(<<"n", "u", "l", "l">>)
  ELSE IF n.t = "Bool" THEN
    IF n.v THEN S(<<"t", "r", "u", "e">>) ELSE S(<<"f", "a", "l", "s", "e">>)
  ELSE IF n.t = "ULongLong" THEN Numeral(n.v)
  ELSE IF n.t = "LongLong" THEN (IF n.v.neg THEN <<45>> ELSE <<>>) \o Numeral(n.v.mag)
  ELSE IF n.t = "Double" THEN SerializeDouble(n.v)
  ELSE IF n.t = "QString" THEN SerializeString(n.v)
  ELSE IF n.t = "QStringNull" THEN SerializeString(<<>>)
  ELSE IF n.t = "QByteArray" THEN SerializeByteArray(n.v)
  ELSE IF n.t \in {"QStringList", "QByteArrayList"}
    THEN <<91>> \o SerializeItems(n.v, 1) \o <<93>>
  ELSE IF n.t = "QVariantList" THEN <<91>> \o SerializeList(v, n.v, 1) \o <<93>>
  ELSE <<123>> \o SerializeMap(v, SortByUtf8(n.v), 1) \o <<125>>

\* Json::toUtf8(v, true, SerOption::BareNullOk)
toUtf8(v) == serialize(v, 1)

(***************************************************************************)
(* The QVariants given to toUtf8: scalars of every kind, and lists and     *)
(* maps of them.  A tree numbers its nodes in the order their first bytes  *)
(* are written, the order in which parse creates its Containers.           *)
(***************************************************************************)
Leaf(t, v) == <<QVariantNode(t, v)>>

\* tree with the indices of its children raised by k.
Shift(tree, k) ==
  [i \in 1..Len(tree) |->
     IF tree[i].t = "QVariantList"
       THEN QVariantNode("QVariantList", [j \in 1..Len(tree[i].v) |-> tree[i].v[j] + k])
     ELSE IF tree[i].t = "QVariantMap"
       THEN QVariantNode("QVariantMap",
              [j \in 1..Len(tree[i].v) |->
                 [key |-> tree[i].v[j].key, val |-> tree[i].v[j].val + k]])
     ELSE tree[i]]

RECURSIVE SumLen(_, _)
SumLen(kids, n) == IF n = 0 THEN 0 ELSE SumLen(kids, n - 1) + Len(kids[n])

RECURSIVE KidsFrom(_, _)
KidsFrom(kids, i) ==
  IF i > Len(kids) THEN <<>>
  ELSE Shift(kids[i], SumLen(kids, i - 1) + 1) \o KidsFrom(kids, i + 1)

ListOf(kids) ==
  <<QVariantNode("QVariantList", [i \in 1..Len(kids) |-> SumLen(kids, i - 1) + 2])>>
    \o KidsFrom(kids, 1)

MapOf(keys, kids) ==
  <<QVariantNode("QVariantMap",
      [i \in 1..Len(kids) |-> [key |-> keys[i], val |-> SumLen(kids, i - 1) + 2]])>>
    \o KidsFrom(kids, 1)

Dbl(neg, sig, exp) == Leaf("Double", [neg |-> neg, sig |-> sig, exp |-> exp])

U64One == <<0, 0, 0, 1>>
U64Max == <<LimbBase - 1, LimbBase - 1, LimbBase - 1, LimbBase - 1>>

\* 1.5, 1.4e-07, 0.001, -2.5e-05, 1e+20 and 3.25.
FractionalDoubles ==
  { Dbl(FALSE, <<1, 5>>, 0), Dbl(FALSE, <<1, 4>>, -7), Dbl(FALSE, <<1>>, -3),
    Dbl(TRUE, <<2, 5>>, -5), Dbl(FALSE, <<1>>, 20), Dbl(FALSE, <<3, 2, 5>>, 0) }

\* 1.0, 120.0, -3.0, 0.0 and -0.0.
IntegralDoubles ==
  { Dbl(FALSE, <<1>>, 0), Dbl(FALSE, <<1, 2>>, 2), Dbl(TRUE, <<3>>, 0),
    Dbl(FALSE, <<>>, 0), Dbl(TRUE, <<>>, 0) }

\* Strings: empty, plain, every escape, two and three and four byte
\* characters, and one with U+0000 in it.
Strings ==
  { <<>>, <<97>>, <<34, 92, 47>>, <<8, 12, 10, 13, 9>>, <<1, 31, 32, 127>>,
    <<233, 8364>>, <<119070>>, <<97, 0, 98>> }

Scalars ==
  { QVariantInvalid, Leaf("Bool", TRUE), Leaf("Bool", FALSE),
    Leaf("ULongLong", U64Zero), Leaf("ULongLong", U64One), Leaf("ULongLong", U64Max),
    Leaf("LongLong", [neg |-> TRUE, mag |-> U64One]),
    Leaf("LongLong", [neg |-> TRUE, mag |-> TwoTo63]) }
    \cup FractionalDoubles \cup IntegralDoubles
    \cup {Leaf("QString", q) : q \in Strings}

\* The most elements of a list and the most pairs of a map.
MaxItems == 2

\* What lists and maps are made of.
Elems ==
  { QVariantInvalid, Leaf("Bool", TRUE), Leaf("ULongLong", U64One),
    Leaf("LongLong", [neg |-> TRUE, mag |-> U64One]), Dbl(FALSE, <<1, 5>>, 0),
    Leaf("QString", <<97>>), ListOf(<<>>), MapOf(<<>>, <<>>) }

Keys == {<<>>, <<97>>, <<98>>, <<34>>}

\* The keys of a set in the order of a QVariantMap.
RECURSIVE SortedKeys(_)
SortedKeys(ks) ==
  IF ks = {} THEN <<>>
  ELSE LET least == CHOOSE k \in ks : \A o \in ks \ {k} : QStringLess(k, o)
       IN <<least>> \o SortedKeys(ks \ {least})

Lists == {ListOf(kids) : kids \in UNION {[1..n -> Elems] : n \in 1..MaxItems}}

Maps ==
  UNION { {MapOf(SortedKeys(ks), kids) : kids \in [1..Cardinality(ks) -> Elems]}
          : ks \in {k \in SUBSET Keys : Cardinality(k) \in 1..MaxItems} }

\* A list in a list, a map in a list, a list in a map.
Nested ==
  {ListOf(<<ListOf(<<e>>), e>>) : e \in Elems}
    \cup {ListOf(<<MapOf(<<<<97>>>>, <<e>>)>>) : e \in Elems}
    \cup {MapOf(<<<<97>>>>, <<ListOf(<<e>>)>>) : e \in Scalars}

HostValues == Scalars \cup Lists \cup Maps \cup Nested

(***************************************************************************)
(* Json::parseUtf8(Json::toUtf8(value, true)): the bytes of the serializer *)
(* are the whole buffer of Json::detail::parse.                            *)
(***************************************************************************)
InitRoundTrip ==
  /\ value \in HostValues
  /\ bytes = <<>>
  /\ pc = "serialize"
  /\ IdleParse
  /\ token = NoToken
  /\ conv = NoConv
  /\ writer = NewFilter
  /\ pushed = NoPush
  /\ IdleApi

Serialize ==
  /\ pc = "serialize"
  /\ bytes' = toUtf8(value)
  /\ pc' = "call"
  /\ UNCHANGED <<eof, fed, locals, out, ret, site, ref, aux>>

NextRoundTrip == Serialize \/ Enter \/ ParseIter \/ Final

SpecRoundTrip == InitRoundTrip /\ [][NextRoundTrip]_vars

\* C3: parseUtf8(toUtf8(v, true)) succeeds and gives v back.
C3_RoundTrip == pc = "done" => (ret = "true" /\ out = value)

(***************************************************************************)
(* getJsonToken on string literals.  The inputs are literals of raw bytes  *)
(* that form, open, break and overrun UTF-8 sequences, and literals made   *)
(* of pieces: escapes, cut and misspelt escapes, control bytes and raw     *)
(* sequences, with or without the closing quote.                           *)
(***************************************************************************)
MaxStrLen == 4

MaxPieces == 2

Quote == <<Ord["\""]>>

\* 'A', continuation bytes, lead bytes of 2, 3 and 4 byte sequences, 0xF8.
StrAlphabet == {65, 128, 144, 192, 194, 224, 240, 244, 248}

RawLiterals ==
  {Quote \o body \o Quote : body \in UNION {[1..n -> StrAlphabet] : n \in 0..MaxStrLen}}

SimpleEscapes ==
  {S(<<"\\", c>>) : c \in {"\"", "\\", "/", "b", "f", "n", "r", "t"}}

BadEscapes == {S(<<"\\", "x">>), S(<<"\\", "a">>), S(<<"\\", "0">>), S(<<"\\", "E">>)}

HexQuads ==
  { <<"0","0","0","0">>, <<"0","0","4","1">>, <<"0","0","e","9">>, <<"0","0","E","9">>,
    <<"2","0","a","c">>, <<"2","0","A","C">>, <<"d","8","3","4">>, <<"D","8","3","4">>,
    <<"D","8","4","0">>, <<"d","d","1","e">>, <<"D","D","1","E">>, <<"D","C","0","0">>,
    <<"f","f","f","f">>, <<"F","F","F","F">> }

UnicodeEscapes == {S(<<"\\", "u">> \o q) : q \in HexQuads}

\* \u with fewer than four hexadecimal digits after it.
ShortEscapes ==
  { S(<<"\\", "u">>), S(<<"\\", "u", "1">>), S(<<"\\", "u", "1", "2">>),
    S(<<"\\", "u", "a", "B", "c">>), S(<<"\\", "u", "0", "0", "x", "0">>) }

\* 'A', DEL, control bytes, an open sequence, U+00E9, and the bytes that
\* spell the surrogate U+D800 as a 3-byte sequence.
RawPieces ==
  { <<65>>, <<127>>, <<31>>, <<0>>, <<10>>, <<195>>, <<195, 169>>, <<237, 160, 128>>,
    S(<<"\\">>) }

Pieces == SimpleEscapes \cup BadEscapes \cup UnicodeEscapes \cup ShortEscapes \cup RawPieces

RECURSIVE Concat(_)
Concat(ps) == IF ps = <<>> THEN <<>> ELSE ps[1] \o Concat(Tail(ps))

PieceLiterals ==
  { Quote \o Concat(ps) \o close :
      ps \in UNION {[1..n -> Pieces] : n \in 1..MaxPieces}, close \in {<<>>, Quote} }

StringInputs == RawLiterals \cup PieceLiterals

InitString ==
  /\ bytes \in StringInputs
  /\ pc = "lex"
  /\ IdleParse
  /\ IdleAux

NextString == Tokenize

SpecString == InitString /\ [][NextString]_vars

(***************************************************************************)
(* Well-formed UTF-8, written down without reference to the filter: the    *)
(* bytes split into sequences of the forms of the Unicode standard (table  *)
(* 3-7), which are the shortest encodings of the scalar values.            *)
(***************************************************************************)
InRange(b, i, lo, hi) == i <= Len(b) /\ b[i] >= lo /\ b[i] <= hi

\* The length of a well-formed sequence that starts at index i, or 0.
WellFormedAt(b, i) ==
  IF InRange(b, i, 0, 127) THEN 1
  ELSE IF InRange(b, i, 194, 223) /\ InRange(b, i + 1, 128, 191) THEN 2
  ELSE IF \/ InRange(b, i, 224, 224) /\ InRange(b, i + 1, 160, 191)
          \/ InRange(b, i, 225, 236) /\ InRange(b, i + 1, 128, 191)
          \/ InRange(b, i, 237, 237) /\ InRange(b, i + 1, 128, 159)
          \/ InRange(b, i, 238, 239) /\ InRange(b, i + 1, 128, 191)
    THEN (IF InRange(b, i + 2, 128, 191) THEN 3 ELSE 0)
  ELSE IF \/ InRange(b, i, 240, 240) /\ InRange(b, i + 1, 144, 191)
          \/ InRange(b, i, 241, 243) /\ InRange(b, i + 1, 128, 191)
          \/ InRange(b, i, 244, 244) /\ InRange(b, i + 1, 128, 143)
    THEN (IF InRange(b, i + 2, 128, 191) /\ InRange(b, i + 3, 128, 191) THEN 4 ELSE 0)
  ELSE 0

RECURSIVE WellFormedFrom(_, _)
WellFormedFrom(b, i) ==
  IF i > Len(b) THEN TRUE
  ELSE IF WellFormedAt(b, i) = 0 THEN FALSE
  ELSE WellFormedFrom(b, i + WellFormedAt(b, i))

WellFormedUtf8(b) == WellFormedFrom(b, 1)

\* C11: the payload of every JTOK_STRING token is well-formed UTF-8.
C11_StringIsUtf8 ==
  (pc = "lexed" /\ token.tok = "JTOK_STRING") => WellFormedUtf8(token.tokenVal)

\* C11, for literals whose raw bytes carry no lead byte above 0xF4 and no
\* 0xF4 followed by a byte above 0x8F.
C11_BelowLimit ==
  (pc = "lexed" /\ token.tok = "JTOK_STRING"
     /\ \A i \in 1..Len(bytes) :
          bytes[i] < 244 \/ (bytes[i] = 244 /\ InRange(bytes, i + 1, 0, 143)))
  => WellFormedUtf8(token.tokenVal)

\* Overlong and surrogate forms in the input come out in shortest form.
C11_Overlong ==
  /\ pc = "lexed"
  /\ bytes = Quote \o <<192, 128>> \o Quote
  /\ token.tok = "JTOK_STRING"
  /\ token.tokenVal = <<0>>

(***************************************************************************)
(* Json::detail::parse on whole buffers that hold one object: up to        *)
(* MaxMembers members, with keys that repeat, keys spelt with escapes, and *)
(* an object with a repeated key as a value.                               *)
(***************************************************************************)
MaxMembers == 3

KeyTexts ==
  { S(<<"\"", "b", "\"">>), S(<<"\"", "a", "\"">>),
    S(<<"\"", "\\", "u", "0", "0", "6", "1", "\"">>),
    S(<<"\"", "a", "\\", "u", "0", "0", "0", "0", "\"">>) }

ValueTexts ==
  { S(<<"1">>), S(<<"t", "r", "u", "e">>),
    S(<<"{", "\"", "b", "\"", ":", "1", ",", "\"", "b", "\"", ":", "[", "]", "}">>) }

MemberTexts == {k \o S(<<":">>) \o v : k \in KeyTexts, v \in ValueTexts}

RECURSIVE JoinMembers(_)
JoinMembers(ms) ==
  IF ms = <<>> THEN <<>>
  ELSE IF Len(ms) = 1 THEN ms[1]
  ELSE ms[1] \o S(<<",">>) \o JoinMembers(Tail(ms))

ObjectInputs ==
  { S(<<"{">>) \o JoinMembers(ms) \o S(<<"}">>) :
      ms \in UNION {[1..n -> MemberTexts] : n \in 0..MaxMembers} }

InitObject ==
  /\ bytes \in ObjectInputs
  /\ pc = "call"
  /\ IdleParse
  /\ IdleAux

NextObject == Enter \/ ParseIter \/ Final

SpecObject == InitObject /\ [][NextObject]_vars

\* The index of the last entry of E whose key decodes to the QString q.
LastWithKey(E, q) ==
  CHOOSE j \in 1..Len(E) :
    /\ fromUtf8(E[j].first) = q
    /\ \A l \in (j + 1)..Len(E) : fromUtf8(E[l].first) # q

\* Every member of every object of the parse is a pair of the QVariantMap
\* that is returned for it.
AllMembersKept ==
  \A i \in 1..Len(heap) :
    heap[i].typ = "Obj" =>
      \A j \in 1..Len(heap[i].entries) :
        \E k \in 1..Len(out[i].v) : out[i].v[k].val = heap[i].entries[j].second

\* C12 as stated: all members of an object reach the returned value.
C12_AsStated == (pc = "done" /\ ret = "true") => AllMembersKept

\* The QVariantMap of an object: one pair for each decoded key, in the
\* order of the keys, with the value of the last member that has the key.
LastValueWins ==
  \A i \in 1..Len(heap) :
    heap[i].typ = "Obj" =>
      LET E == heap[i].entries
          M == out[i].v
      IN /\ out[i].t = "QVariantMap"
         /\ \A j \in 1..Len(E) :
              \E k \in 1..Len(M) :
                 /\ M[k].key = fromUtf8(E[j].first)
                 /\ M[k].val = E[LastWithKey(E, M[k].key)].second
         /\ \A k \in 1..Len(M) : \E j \in 1..Len(E) : M[k].key = fromUtf8(E[j].first)
         /\ \A k \in 1..(Len(M) - 1) : QStringLess(M[k].key, M[k + 1].key)

\* A step of the parser keeps the entries of every Container and adds, for
\* a string read where a name is expected, one entry with that key at the
\* end of the entries of the object on top of the stack.
MembersRetained ==
  /\ \A i \in 1..Len(heap) :
       pc # "call" =>
         /\ i <= Len(heap')
         /\ Len(heap[i].entries) <= Len(heap'[i].entries)
         /\ SubSeq(heap'[i].entries, 1, Len(heap[i].entries)) = heap[i].entries
  /\ (pc = "loop" /\ tok' = "JTOK_STRING" /\ "OBJ_NAME" \in expectMask /\ site' = 0) =>
       LET top == back(stack) IN
         /\ Len(heap'[top].entries) = Len(heap[top].entries) + 1
         /\ back(heap'[top].entries).first = getJsonToken(bytes, raw).tokenVal

\* C12: the Container tree keeps all members of an object in the order of
\* the input; the returned map keeps the last value of each key.
C12_LastValueWins ==
  /\ []((pc = "done" /\ ret = "true") => LastValueWins)
  /\ [][MembersRetained]_vars

\* An object whose key "a" came three times, first with a number and last
\* with true, was returned as a map of one pair that holds true.
C12_Witness ==
  /\ pc = "done"
  /\ ret = "true"
  /\ Len(heap[1].entries) = 3
  /\ \A j \in 1..3 : fromUtf8(heap[1].entries[j].first) = <<97>>
  /\ heap[heap[1].entries[1].second].typ = "Num"
  /\ heap[heap[1].entries[3].second].typ = "BoolTrue"
  /\ Len(out[1].v) = 1
  /\ out[1].v[1].val = heap[1].entries[3].second

(***************************************************************************)
(* Json::parseUtf8(json, option).  Json.cpp is not among the sources at    *)
(* hand; the function is modelled from Json.h (lines 56-71) and from       *)
(* section 4.3 of the specification: it calls Json::detail::parse, throws  *)
(* ParseError if that returns false, and then checks the root against the  *)
(* option, throwing Error if the check fails.                              *)
(***************************************************************************)
ParseOptions == {"RequireObject", "RequireArray", "AcceptAnyValue"}

\* A check of the root that accepts every value.
RootCheck_Any(opt, v) == "returned"

RootCheck(opt, v) ==
  IF opt = "RequireObject" /\ v[1].t # "QVariantMap" THEN "Error"
  ELSE IF opt = "RequireArray" /\ v[1].t # "QVariantList" THEN "Error"
  ELSE "returned"

parseUtf8(ok, v, opt) == IF ~ok THEN "ParseError" ELSE RootCheck(opt, v)

\* Roots of every kind, plain, in white space and with contents, and texts
\* that are not JSON.
RootInputs ==
  { S(<<"{", "}">>), S(<<"[", "]">>), S(<<"\"", "a", "\"">>), S(<<"\"", "\"">>),
    S(<<"1">>), S(<<"-", "1">>), S(<<"1", ".", "5">>), S(<<"0">>),
    S(<<"t", "r", "u", "e">>), S(<<"f", "a", "l", "s", "e">>), S(<<"n", "u", "l", "l">>),
    S(<<" ", "{", "}", " ">>), S(<<"LF", "[", "]", "LF">>), S(<<" ", "1", " ">>),
    S(<<"{", "\"", "a", "\"", ":", "[", "]", "}">>),
    S(<<"{", "\"", "a", "\"", ":", "1", "}">>),
    S(<<"[", "{", "}", "]">>), S(<<"[", "1", ",", "n", "u", "l", "l", "]">>),
    S(<<"[", "\"", "a", "\"", "]">>),
    <<>>, S(<<" ">>), S(<<"{">>), S(<<"[">>), S(<<"]">>), S(<<"x">>),
    S(<<"{", "}", " ", "x">>), S(<<"[", "1", ",", "]">>), S(<<"{", "]">>),
    S(<<"n", "u", "l">>), S(<<"\"", "a">>), S(<<"0", "1">>), BigNumber }

InitParseUtf8 ==
  /\ bytes \in RootInputs
  /\ pc = "call"
  /\ IdleParse
  /\ token = NoToken
  /\ conv = NoConv
  /\ writer = NewFilter
  /\ pushed = NoPush
  /\ value = QVariantInvalid
  /\ option \in ParseOptions
  /\ result = "none"
  /\ compact = FALSE
  /\ serOption = "BareNullOk"
  /\ json = NoJson
  /\ first = NoParse
  /\ IdleGuard

\* Json::detail::parse has returned: the root check, and the return or throw.
ParseUtf8Return ==
  /\ pc = "done"
  /\ result' = parseUtf8(ret = "true", out, option)
  /\ pc' = "returned"
  /\ UNCHANGED <<env, locals, out, ret, site, ref, token, conv, writer, pushed, value,
                 option, compact, serOption, json, first, guard>>

NextParseUtf8 == Enter \/ ParseIter \/ Final \/ ParseUtf8Return

SpecParseUtf8 == InitParseUtf8 /\ [][NextParseUtf8]_vars

\* The kind of the root by the first byte of the text that is no white space.
RootKind ==
  LET c == At(bytes, SkipSpace(bytes, 0)) IN
  IF c = Ord["{"] THEN "Object" ELSE IF c = Ord["["] THEN "Array" ELSE "Scalar"

\* C13: after a successful parse, parseUtf8 returns the value if and only
\* if the option is AcceptAnyValue, or RequireObject and the root is an
\* object, or RequireArray and the root is an array; an option that is not
\* met is an Error, and a parse that failed is a ParseError.
C13_RootCheck ==
  pc = "returned" =>
    /\ ret # "true" => result = "ParseError"
    /\ ret = "true" =>
         /\ result \in {"returned", "Error"}
         /\ (result = "returned") <=>
              \/ option = "AcceptAnyValue"
              \/ option = "RequireObject" /\ RootKind = "Object"
              \/ option = "RequireArray" /\ RootKind = "Array"

\* An array was parsed and refused under RequireObject.
C13_Witness ==
  /\ pc = "returned"
  /\ ret = "true"
  /\ option = "RequireObject"
  /\ RootKind = "Array"
  /\ result = "Error"

\* A bare string was parsed and returned under AcceptAnyValue.
C13_ScalarAccepted ==
  /\ pc = "returned"
  /\ option = "AcceptAnyValue"
  /\ out = <<QVariantNode("QString", <<97>>)>>
  /\ result = "returned"

(***************************************************************************)
(* Json::serialize(v, prettyIndent, indentLevel) and Json::toUtf8(v,       *)
(* compact, option), from Json.h (lines 76-86) and section 4.5 of the      *)
(* specification.  With prettyIndent > 0 a newline follows '{', '[' and    *)
(* ',', each element is prefixed with prettyIndent * level spaces, and ':' *)
(* is followed by one space.  toUtf8 indents by 4 unless compact.          *)
(*                                                                         *)
(* A QVariantHash is a node [t |-> "QVariantHash", v |-> its pairs in the  *)
(* order its iterator gives them], which is any order (main.cpp, lines     *)
(* 272-276: the test does not compare the serialization of a hash, "since  *)
(* that has random order based on hash seed").                             *)
(***************************************************************************)
SerOptions == {"NoBareNull", "BareNullOk"}

PrettyIndent == 4

Spaces(n) == [k \in 1..n |-> 32]

NewLine(prettyIndent) == IF prettyIndent = 0 THEN <<>> ELSE <<10>>

AfterColon(prettyIndent) == IF prettyIndent = 0 THEN <<>> ELSE <<32>>

\* A serializer that writes the pairs of a map as it finds them.
PairsInOrder_AsGiven(n) == n.v

\* The pairs of a map or hash in the order they are written.
PairsInOrder(n) == IF n.t = "QVariantHash" THEN n.v ELSE SortByUtf8(n.v)

RECURSIVE serialize_indent(_, _, _, _)
RECURSIVE SerializeListIndent(_, _, _, _, _)
RECURSIVE SerializeMapIndent(_, _, _, _, _)
RECURSIVE SerializeItemsIndent(_, _, _, _)
SerializeItemsIndent(items, j, prettyIndent, level) ==
  IF j > Len(items) THEN <<>>
  ELSE (IF j > 1 THEN <<44>> \o NewLine(prettyIndent) ELSE <<>>)
       \o Spaces(prettyIndent * level)
       \o serialize(<<items[j]>>, 1)
       \o SerializeItemsIndent(items, j + 1, prettyIndent, level)

SerializeListIndent(v, kids, j, prettyIndent, level) ==
  IF j > Len(kids) THEN <<>>
  ELSE (IF j > 1 THEN <<44>> \o NewLine(prettyIndent) ELSE <<>>)
       \o Spaces(prettyIndent * level)
       \o serialize_indent(v, kids[j], prettyIndent, level)
       \o SerializeListIndent(v, kids, j + 1, prettyIndent, level)

SerializeMapIndent(v, entries, j, prettyIndent, level) ==
  IF j > Len(entries) THEN <<>>
  ELSE (IF j > 1 THEN <<44>> \o NewLine(prettyIndent) ELSE <<>>)
       \o Spaces(prettyIndent * level)
       \o SerializeString(entries[j].key) \o <<58>> \o AfterColon(prettyIndent)
       \o serialize_indent(v, entries[j].val, prettyIndent, level)
       \o SerializeMapIndent(v, entries, j + 1, prettyIndent, level)

serialize_indent(v, i, prettyIndent, indentLevel) ==
  IF v[i].t = "QVariantList"
    THEN <<91>> \o NewLine(prettyIndent)
              \o SerializeListIndent(v, v[i].v, 1, prettyIndent, indentLevel + 1) \o <<93>>
  ELSE IF v[i].t \in {"QStringList", "QByteArrayList"}
    THEN <<91>> \o NewLine(prettyIndent)
              \o SerializeItemsIndent(v[i].v, 1, prettyIndent, indentLevel + 1) \o <<93>>
  ELSE IF v[i].t \in {"QVariantMap", "QVariantHash"}
    THEN <<123>> \o NewLine(prettyIndent)
               \o SerializeMapIndent(v, PairsInOrder(v[i]), 1, prettyIndent, indentLevel + 1)
               \o <<125>>
  ELSE serialize(v, i)

\* A toUtf8 that writes null for an empty QVariant under either option.
BareNullRefused_Never(v, opt) == FALSE

\* "Will throw also if given an empty QVariant{}, unless BareNullOk".
BareNullRefused(v, opt) == v[1].t = "Invalid" /\ opt = "NoBareNull"

toUtf8_opt(v, compact_, opt) ==
  IF BareNullRefused(v, opt) THEN [threw |-> TRUE, bytes |-> <<>>]
  ELSE [threw |-> FALSE,
        bytes |-> serialize_indent(v, 1, IF compact_ THEN 0 ELSE PrettyIndent, 0)]

(***************************************************************************)
(* The values given to toUtf8 with every choice of its arguments: those of *)
(* the round trip, maps whose keys are ordered one way as UTF-16 and the   *)
(* other way as UTF-8, and hashes in every order of their pairs.           *)
(***************************************************************************)
\* U+FF5E (EF BD 9E) and U+1D11E (F0 9D 84 9E, UTF-16 D834 DD1E).
WideKeys == {<<65374>>, <<119070>>, <<97>>}

OrderedMaps ==
  { MapOf(SortedKeys(ks), [i \in 1..Cardinality(ks) |-> Leaf("ULongLong", U64One)]) :
      ks \in {k \in SUBSET (Keys \cup WideKeys) : Cardinality(k) \in 2..3} }

\* The permutations of 1..n.
Perms(n) == {p \in [1..n -> 1..n] : \A a, b \in 1..n : a # b => p[a] # p[b]}

\* The hashes with the pairs of map m.
HashesOf(m) ==
  { [m EXCEPT ![1] = QVariantNode("QVariantHash", [j \in 1..Len(m[1].v) |-> m[1].v[p[j]]])] :
      p \in Perms(Len(m[1].v)) }

Hashes == UNION {HashesOf(m) : m \in OrderedMaps}

SerValues == HostValues \cup OrderedMaps \cup Hashes

InitToUtf8 ==
  /\ value \in SerValues
  /\ compact \in BOOLEAN
  /\ serOption \in SerOptions
  /\ bytes = <<>>
  /\ pc = "toUtf8"
  /\ IdleParse
  /\ token = NoToken
  /\ conv = NoConv
  /\ writer = NewFilter
  /\ pushed = NoPush
  /\ option = "AcceptAnyValue"
  /\ result = "none"
  /\ json = NoJson
  /\ first = NoParse
  /\ IdleGuard

\* json = Json::toUtf8(value, compact, serOption)
CallToUtf8 ==
  /\ pc = "toUtf8"
  /\ json' = toUtf8_opt(value, compact, serOption)
  /\ pc' = "serialized"
  /\ UNCHANGED <<env, locals, out, ret, site, ref, token, conv, writer, pushed, value,
                 option, result, compact, serOption, first, guard>>

NextToUtf8 == CallToUtf8

SpecToUtf8 == InitToUtf8 /\ [][NextToUtf8]_vars

(***************************************************************************)
(* The order of keys, written down without reference to the serializer:    *)
(* the members of the root object, found in the compact output as the      *)
(* places where a key and its colon stand, come in ascending order of the  *)
(* UTF-8 bytes of the keys.                                                *)
(***************************************************************************)
\* The members of the root all hold the number 1: the compact output is a
\* brace, the members "key":1 with commas between, and a brace.
RECURSIVE MembersText(_)
MembersText(ks) ==
  IF ks = <<>> THEN <<>>
  ELSE SerializeString(ks[1]) \o <<58, 49>>
       \o (IF Len(ks) > 1 THEN <<44>> ELSE <<>>) \o MembersText(Tail(ks))

\* The keys ks in ascending order of their UTF-8 bytes.
Utf8Less(a, b) == SeqLess(QString_toUtf8(a), QString_toUtf8(b))

AscendingUtf8(ks) ==
  CHOOSE s \in [1..Cardinality(ks) -> ks] :
    \A a, b \in 1..Cardinality(ks) : a < b => Utf8Less(s[a], s[b])

KeysOf(n) == {n.v[j].key : j \in 1..Len(n.v)}

IsFlatObject(v) ==
  /\ v[1].t \in {"QVariantMap", "QVariantHash"}
  /\ Len(v[1].v) >= 2
  /\ \A j \in 1..Len(v[1].v) : v[v[1].v[j].val] = QVariantNode("ULongLong", U64One)

SortedOutput(v) == <<123>> \o MembersText(AscendingUtf8(KeysOf(v[1]))) \o <<125>>

CompactIsSerialize ==
  (pc = "serialized" /\ compact /\ ~json.threw /\ value \in HostValues)
    => json.bytes = toUtf8(value)

\* The bytes of b that are no white space.
RECURSIVE Strip(_)
Strip(b) ==
  IF b = <<>> THEN <<>>
  ELSE (IF json_isspace(b[1]) THEN <<>> ELSE <<b[1]>>) \o Strip(Tail(b))

NullText == S(<<"n", "u", "l", "l">>)

\* [null], [null,null], ...
RECURSIVE NullsText(_)
NullsText(n) == IF n = 1 THEN NullText ELSE NullText \o <<44>> \o NullsText(n - 1)

IsListOfUnset(v) ==
  /\ v[1].t = "QVariantList"
  /\ Len(v) > 1
  /\ \A i \in 2..Len(v) : v[i] = InvalidNode

IsMapOfUnset(v) ==
  /\ v[1].t = "QVariantMap"
  /\ Len(v) = 2
  /\ v[1].v[1].key = <<97>>
  /\ v[2] = InvalidNode

\* C17: an empty QVariant at the root throws under NoBareNull and is
\* written as null under BareNullOk; an empty QVariant in a list or a map
\* is written as null under either option.
C17_BareNull ==
  pc = "serialized" =>
    /\ value = QVariantInvalid =>
         /\ serOption = "NoBareNull" => json.threw
         /\ serOption = "BareNullOk" => (~json.threw /\ json.bytes = NullText)
    /\ IsListOfUnset(value) =>
         (~json.threw /\ Strip(json.bytes) = <<91>> \o NullsText(Len(value) - 1) \o <<93>>)
    /\ IsMapOfUnset(value) =>
         (~json.threw /\ Strip(json.bytes) = S(<<"{", "\"", "a", "\"", ":">>) \o NullText \o <<125>>)

\* toUtf8 of an empty QVariant threw under NoBareNull.
C17_Witness ==
  /\ pc = "serialized"
  /\ value = QVariantInvalid
  /\ serOption = "NoBareNull"
  /\ json.threw

\* A list of two empty QVariants was written under NoBareNull.
C17_NestedUnset ==
  /\ pc = "serialized"
  /\ IsListOfUnset(value)
  /\ Len(value) = 3
  /\ serOption = "NoBareNull"
  /\ compact
  /\ json.bytes = S(<<"[", "n", "u", "l", "l", ",", "n", "u", "l", "l", "]">>)

(***************************************************************************)
(* parseUtf8(toUtf8(v, true)) and parseUtf8(toUtf8(v, false)), one after   *)
(* the other: `first` keeps what the parse of the compact form gave.       *)
(***************************************************************************)
InitPretty ==
  /\ value \in SerValues
  /\ compact = TRUE
  /\ serOption = "BareNullOk"
  /\ bytes = <<>>
  /\ pc = "serialize"
  /\ IdleParse
  /\ token = NoToken
  /\ conv = NoConv
  /\ writer = NewFilter
  /\ pushed = NoPush
  /\ option = "AcceptAnyValue"
  /\ result = "none"
  /\ json = NoJson
  /\ first = NoParse
  /\ IdleGuard

\* json = toUtf8(value, true); parse is called on it.
ToUtf8Compact ==
  /\ pc = "serialize"
  /\ json' = toUtf8_opt(value, TRUE, serOption)
  /\ bytes' = json'.bytes
  /\ pc' = "call"
  /\ UNCHANGED <<eof, fed, locals, out, ret, site, ref, token, conv, writer, pushed, value,
                 option, result, compact, serOption, first, guard>>

\* The first parse has returned; json = toUtf8(value, false), and parse is
\* called on it.
ToUtf8Pretty ==
  /\ pc = "done"
  /\ compact
  /\ first' = [ret |-> ret, out |-> out]
  /\ compact' = FALSE
  /\ json' = toUtf8_opt(value, FALSE, serOption)
  /\ bytes' = json'.bytes
  /\ ret' = "none"
  /\ site' = 0
  /\ ref' = RefInit
  /\ pc' = "call"
  /\ UNCHANGED <<eof, fed, locals, out, token, conv, writer, pushed, value,
                 option, result, serOption, guard>>

NextPretty == ToUtf8Compact \/ ToUtf8Pretty \/ Enter \/ ParseIter \/ Final

SpecPretty == InitPretty /\ [][NextPretty]_vars

\* C15: the parse of the pretty form ends as the parse of the compact form
\* did, and gives the same value.
C15_PrettyEquivalence ==
  (pc = "done" /\ ~compact) => (ret = first.ret /\ out = first.out)

\* A list in a list was written over several indented lines and parsed.
C15_Witness ==
  /\ pc = "done"
  /\ ~compact
  /\ ret = "true"
  /\ first.ret = "true"
  /\ value[1].t = "QVariantList"
  /\ value[2].t = "QVariantList"
  /\ \E i \in 1..(Len(bytes) - 9) :
       SubSeq(bytes, i, i + 8) = <<10>> \o Spaces(2 * PrettyIndent)
  /\ out[1].t = "QVariantList"

(***************************************************************************)
(* toUtf8(parseUtf8(x), true) for texts x in compact form: the texts that  *)
(* toUtf8(v, true) gives, bare or with white space around them.            *)
(***************************************************************************)
Margins == {<<<<>>, <<>>>>, <<<<>>, <<10>>>>, <<<<32>>, <<13, 10>>>>}

CanonicalInputs ==
  { m[1] \o toUtf8(v) \o m[2] : v \in HostValues \ {Dbl(TRUE, <<>>, 0)}, m \in Margins }

InitReserialize ==
  /\ bytes \in CanonicalInputs
  /\ pc = "call"
  /\ IdleParse
  /\ IdleAux

\* parse has returned true: json = toUtf8(out, true).
Reserialize ==
  /\ pc = "done"
  /\ ret = "true"
  /\ json' = toUtf8_opt(out, TRUE, serOption)
  /\ pc' = "reserialized"
  /\ UNCHANGED <<env, locals, out, ret, site, ref, token, conv, writer, pushed, value,
                 option, result, compact, serOption, first, guard>>

NextReserialize == Enter \/ ParseIter \/ Final \/ Reserialize

SpecReserialize == InitReserialize /\ [][NextReserialize]_vars

\* QByteArray::trimmed(): without the white space at either end.
RECURSIVE TrimEnd(_)
TrimEnd(b) ==
  IF b # <<>> /\ b[Len(b)] \in {32, 9, 10, 11, 12, 13} THEN TrimEnd(SubSeq(b, 1, Len(b) - 1))
  ELSE b

RECURSIVE TrimStart(_)
TrimStart(b) ==
  IF b # <<>> /\ b[1] \in {32, 9, 10, 11, 12, 13} THEN TrimStart(Tail(b)) ELSE b

Trimmed(b) == TrimStart(TrimEnd(b))

\* C16: for a text x in compact form that parses, toUtf8(parseUtf8(x), true)
\* is x, white space at the ends aside.
C16_Reserialize ==
  pc = "reserialized" => (~json.threw /\ Trimmed(json.bytes) = Trimmed(bytes))

\* The text has the six bytes \u0000 in it.
HasNulEscape(b) ==
  \E i \in 1..(Len(b) - 5) : SubSeq(b, i, i + 5) = S(<<"\\", "u", "0", "0", "0", "0">>)

\* The text has the number -0 in it.
HasMinusZero(b) ==
  \E i \in 1..(Len(b) - 1) : b[i] = 45 /\ b[i + 1] = 48 /\ At(b, i + 1) # 46

\* C16 for the texts with neither \u0000 nor -0 in them.
C16_WithoutNul ==
  (pc = "reserialized" /\ ~HasNulEscape(bytes) /\ ~HasMinusZero(bytes))
  => (~json.threw /\ Trimmed(json.bytes) = Trimmed(bytes))

\* The text "a\u0000b" was parsed and written back as "a".
C16_NulCut ==
  /\ pc = "reserialized"
  /\ bytes = S(<<"\"", "a", "\\", "u", "0", "0", "0", "0", "b", "\"">>)
  /\ json.bytes = S(<<"\"", "a", "\"">>)

(***************************************************************************)
(* The string literal as RFC 4627 reads it, written down without reference *)
(* to the tokenizer and the filter.  LitScan walks the elements of the     *)
(* literal from offset i (the byte after the opening quote) and says how   *)
(* the literal ends:                                                       *)
(*   "closed"    at the closing quote, `at` its offset;                    *)
(*   "eof"       the input ends first;                                     *)
(*   "control"   a raw byte below 0x20;                                    *)
(*   "badescape" a backslash before a byte that names no escape;           *)
(*   "shorthex"  \u before fewer than four hexadecimal digits.             *)
(* Along the way it keeps, in st: val, the bytes the elements stand for;   *)
(* plain, whether every element was an ASCII byte, a two-byte escape or a  *)
(* \u escape of no surrogate; open, how many continuation bytes the        *)
(* sequence at the end of the literal still lacks; high, whether a \u      *)
(* escape of a high surrogate has had no \u escape of a low one after it.  *)
(***************************************************************************)
HexValue(c) ==
  IF c \in 48..57 THEN c - 48
  ELSE IF c \in 97..102 THEN c - 87
  ELSE IF c \in 65..70 THEN c - 55
  ELSE 16

IsHex(c) == HexValue(c) < 16

EscapedByte(c) ==
  IF c = 34 THEN 34          \* \"
  ELSE IF c = 92 THEN 92     \* \\
  ELSE IF c = 47 THEN 47     \* \/
  ELSE IF c = 98 THEN 8      \* \b
  ELSE IF c = 102 THEN 12    \* \f
  ELSE IF c = 110 THEN 10    \* \n
  ELSE IF c = 114 THEN 13    \* \r
  ELSE IF c = 116 THEN 9     \* \t
  ELSE 256

ScanStart == [val |-> <<>>, plain |-> TRUE, open |-> 0, high |-> FALSE]

ScanEnd(end, at, st) == [end |-> end, at |-> at, st |-> st]

\* st after a raw byte c.
AfterByte(st, c) ==
  IF c < 128 THEN [st EXCEPT !.val = Append(@, c), !.open = 0]
  ELSE IF c < 192 THEN [st EXCEPT !.plain = FALSE, !.open = IF @ > 0 THEN @ - 1 ELSE 0]
  ELSE IF c < 224 THEN [st EXCEPT !.plain = FALSE, !.open = 1]
  ELSE IF c < 240 THEN [st EXCEPT !.plain = FALSE, !.open = 2]
  ELSE IF c < 248 THEN [st EXCEPT !.plain = FALSE, !.open = 3]
  ELSE [st EXCEPT !.plain = FALSE, !.open = 0]

\* st after the escape \uXXXX of the code unit u.
AfterUnit(st, u) ==
  IF u \in 55296..56319 THEN [st EXCEPT !.plain = FALSE, !.open = 0, !.high = TRUE]
  ELSE IF u \in 56320..57343 THEN [st EXCEPT !.plain = FALSE, !.open = 0, !.high = FALSE]
  ELSE [st EXCEPT !.val = @ \o Utf8Of(u), !.open = 0]

RECURSIVE LitScan(_, _, _)
LitScan(b, i, st) ==
  IF i >= Len(b) THEN ScanEnd("eof", i, st)
  ELSE IF b[i + 1] < 32 THEN ScanEnd("control", i, st)
  ELSE IF b[i + 1] = 34 THEN ScanEnd("closed", i, st)
  ELSE IF b[i + 1] # 92 THEN LitScan(b, i + 1, AfterByte(st, b[i + 1]))
  ELSE IF i + 1 >= Len(b) THEN ScanEnd("eof", i, st)
  ELSE IF EscapedByte(b[i + 2]) < 256
    THEN LitScan(b, i + 2, [st EXCEPT !.val = Append(@, EscapedByte(b[i + 2])), !.open = 0])
  ELSE IF b[i + 2] # 117 THEN ScanEnd("badescape", i, st)
  ELSE IF \E k \in 3..6 : i + k <= Len(b) /\ ~IsHex(b[i + k]) THEN ScanEnd("shorthex", i, st)
  ELSE IF i + 6 > Len(b) THEN ScanEnd("eof", i, st)
  ELSE LitScan(b, i + 6,
               AfterUnit(st, 4096 * HexValue(b[i + 3]) + 256 * HexValue(b[i + 4])
                               + 16 * HexValue(b[i + 5]) + HexValue(b[i + 6])))

\* The literal that starts at offset 0 of the input.
Literal == LitScan(bytes, 1, ScanStart)

\* A literal that ends as l says is no string token.
MustFail(l) ==
  \/ l.end \in {"eof", "control", "badescape"}
  \/ l.end = "closed" /\ (l.st.open > 0 \/ l.st.high)

\* C18: the tokenizer returns JTOK_ERR for a literal that the input ends
\* before its closing quote, that has a raw byte below 0x20, that has a
\* backslash before a byte other than " \ / b f n r t u, or that has at its
\* closing quote a UTF-8 sequence still open or a high surrogate unmatched.
C18_StringErrors ==
  (pc = "lexed" /\ MustFail(Literal)) => token.tok = "JTOK_ERR"

\* The literal "\uD834" and the literal of the raw byte C3 closed and gave
\* JTOK_ERR.
C18_Witness ==
  /\ pc = "lexed"
  /\ token.tok = "JTOK_ERR"
  /\ Literal.end = "closed"
  /\ \/ bytes = Quote \o S(<<"\\", "u", "D", "8", "3", "4">>) \o Quote
     \/ bytes = Quote \o <<195>> \o Quote

\* The input ended inside the literal, after an element.
C18_Unterminated ==
  pc = "lexed" /\ token.tok = "JTOK_ERR" /\ Literal.end = "eof" /\ Len(bytes) > 3

\* A raw control byte after an escape.
C18_Control ==
  pc = "lexed" /\ token.tok = "JTOK_ERR" /\ Literal.end = "control" /\ Literal.at > 2

\* \x after an element.
C18_BadEscape ==
  pc = "lexed" /\ token.tok = "JTOK_ERR" /\ Literal.end = "badescape" /\ Literal.at > 1

\* C19: a literal of ASCII bytes, of the escapes \" \\ \/ \b \f \n \r \t and
\* of \u escapes with four hexadecimal digits that name no surrogate is a
\* JTOK_STRING whose payload has the byte 22, 5C, 2F, 08, 0C, 0A, 0D, 09 for
\* each two-byte escape and the UTF-8 form of the code unit for each \u
\* escape, the digits read in either case; a \u with fewer than four
\* hexadecimal digits after it gives JTOK_ERR.
C19_Escapes ==
  pc = "lexed" =>
    /\ (Literal.end = "closed" /\ Literal.st.plain) =>
         /\ token.tok = "JTOK_STRING"
         /\ token.tokenVal = Literal.st.val
         /\ token.consumed = Literal.at + 1
    /\ Literal.end = "shorthex" => token.tok = "JTOK_ERR"

\* "\né" gave the bytes 0A C3 A9.
C19_Witness ==
  /\ pc = "lexed"
  /\ bytes = Quote \o S(<<"\\", "n", "\\", "u", "0", "0", "E", "9">>) \o Quote
  /\ token.tok = "JTOK_STRING"
  /\ token.tokenVal = <<10, 195, 169>>

\* "€" and "€" gave the same bytes.
C19_LowerCase ==
  /\ pc = "lexed"
  /\ bytes = Quote \o S(<<"\\", "u", "2", "0", "a", "c">>) \o Quote
  /\ token.tokenVal = <<226, 130, 172>>

\* \u and three hexadecimal digits before the closing quote.
C19_ShortHex ==
  /\ pc = "lexed"
  /\ bytes = Quote \o S(<<"\\", "u", "a", "B", "c">>) \o Quote
  /\ token.tok = "JTOK_ERR"

(***************************************************************************)
(* getJsonToken on the keywords.  The inputs are the words of the letters  *)
(* of null, true and false that start with n, t or f, bare or after white  *)
(* space: the keywords, their prefixes, their misspellings and keywords    *)
(* with letters after them.                                                *)
(***************************************************************************)
MaxKwLen == 5

KwAlphabet == {Ord[c] : c \in {"n", "u", "l", "t", "r", "e", "f", "a", "s"}}

KwStart == {Ord["n"], Ord["t"], Ord["f"]}

KwWords ==
  {w \in UNION {[1..n -> KwAlphabet] : n \in 1..MaxKwLen} : w[1] \in KwStart}

KeywordInputs == {ws \o w : ws \in {<<>>, <<32, 10>>}, w \in KwWords}

InitKeyword ==
  /\ bytes \in KeywordInputs
  /\ pc = "lex"
  /\ IdleParse
  /\ IdleAux

NextKeyword == Tokenize

SpecKeyword == InitKeyword /\ [][NextKeyword]_vars

\* The number of white space bytes at the start of b.
RECURSIVE Blanks(_)
Blanks(b) ==
  IF b # <<>> /\ b[1] \in {32, 9, 10, 13} THEN 1 + Blanks(Tail(b)) ELSE 0

\* The bytes of b from offset p on start with the word w.
Spells(b, p, w) == p + Len(w) <= Len(b) /\ SubSeq(b, p + 1, p + Len(w)) = w

KwNull == S(<<"n", "u", "l", "l">>)

KwTrue == S(<<"t", "r", "u", "e">>)

KwFalse == S(<<"f", "a", "l", "s", "e">>)

\* The token for an input with p bytes of white space before an n, t or f.
KeywordAt(t, b, p) ==
  IF Spells(b, p, KwNull) THEN t.tok = "JTOK_KW_NULL" /\ t.consumed = p + 4
  ELSE IF Spells(b, p, KwTrue) THEN t.tok = "JTOK_KW_TRUE" /\ t.consumed = p + 4
  ELSE IF Spells(b, p, KwFalse) THEN t.tok = "JTOK_KW_FALSE" /\ t.consumed = p + 5
  ELSE t.tok = "JTOK_ERR"

\* C20: at an n, t or f the token is JTOK_KW_NULL, JTOK_KW_TRUE or
\* JTOK_KW_FALSE, with the white space and 4, 4 or 5 bytes consumed, when the
\* input spells null, true or false there, and JTOK_ERR for every other
\* spelling, a keyword cut by the end of the input among them.
C20_Keywords ==
  (pc = "lexed" /\ At(bytes, Blanks(bytes)) \in KwStart)
    => KeywordAt(token, bytes, Blanks(bytes))

\* false after two bytes of white space: 7 bytes consumed.
C20_Witness ==
  /\ pc = "lexed"
  /\ bytes = <<32, 10>> \o KwFalse
  /\ token.tok = "JTOK_KW_FALSE"
  /\ token.consumed = 7

\* The input ends after nul, tru or fals.
C20_Truncated ==
  /\ pc = "lexed"
  /\ bytes \in {S(<<"n", "u", "l">>), S(<<"t", "r", "u">>), S(<<"f", "a", "l", "s">>)}
  /\ token.tok = "JTOK_ERR"

(***************************************************************************)
(* The locale guard.  Json.cpp is not among the sources at hand:           *)
(* checkLocale follows Json.h lines 112-122 and section 4.6 of the         *)
(* specification.  checkLocale(autoFix) reads the decimal point of         *)
(* LC_NUMERIC; if it is '.', it returns true; if not, it returns false,    *)
(* after setting LC_NUMERIC to a locale with '.' when autoFix is true.     *)
(* parse* and serialize call checkLocale(true) first when autoFixLocale is *)
(* set.  The locale belongs to the process; the threads read and write it  *)
(* without a lock, so the read and the write of one call are two steps     *)
(* with the steps of other threads between them.                           *)
(***************************************************************************)
\* '.' and ',' as decimal points.
DecimalPoints == {46, 44}

\* What the guard sets the decimal point to, given what it read: the one of
\* the locale it had before.
FixedPoint_AsRead(saw) == saw

\* What the guard sets the decimal point to, given what it read.
FixedPoint(saw) == 46

\* checkLocale returns true for every locale.
LocaleOk_Always(saw) == TRUE

\* The test checkLocale makes on the decimal point it read.
LocaleOk(saw) == saw = 46

InitLocale ==
  /\ locale \in DecimalPoints
  /\ threads = [t \in Threads |-> IdleThread]
  /\ bytes = <<>>
  /\ pc = "idle"
  /\ IdleParse
  /\ token = NoToken
  /\ conv = NoConv
  /\ writer = NewFilter
  /\ pushed = NoPush
  /\ value = QVariantInvalid
  /\ option = "AcceptAnyValue"
  /\ result = "none"
  /\ compact = FALSE
  /\ serOption = "BareNullOk"
  /\ json = NoJson
  /\ first = NoParse

Frame == UNCHANGED <<env, pc, locals, out, ret, site, ref, token, conv, writer, pushed, value,
                     option, result, compact, serOption, json, first>>

\* Thread t calls checkLocale(autoFix): directly, or as the first step of a
\* parse or serialize call with autoFixLocale set (autoFix = true).
CheckLocaleCall(t) ==
  /\ threads[t].at = "idle"
  /\ \E autoFix \in BOOLEAN :
       threads' = [threads EXCEPT ![t] = [at |-> "read", autoFix |-> autoFix,
                                           saw |-> 0, ok |-> TRUE]]
  /\ UNCHANGED locale
  /\ Frame

\* Thread t reads the decimal point; it returns unless it has to set it.
CheckLocaleRead(t) ==
  /\ threads[t].at = "read"
  /\ threads' = [threads EXCEPT ![t].saw = locale,
                                ![t].ok = LocaleOk(locale),
                                ![t].at = IF ~LocaleOk(locale) /\ threads[t].autoFix
                                            THEN "fix" ELSE "returned"]
  /\ UNCHANGED locale
  /\ Frame

\* Thread t sets LC_NUMERIC and returns false.
CheckLocaleFix(t) ==
  /\ threads[t].at = "fix"
  /\ locale' = FixedPoint(threads[t].saw)
  /\ threads' = [threads EXCEPT ![t].at = "returned"]
  /\ Frame

NextLocale ==
  \E t \in Threads : CheckLocaleCall(t) \/ CheckLocaleRead(t) \/ CheckLocaleFix(t)

SpecLocale == InitLocale /\ [][NextLocale]_vars

\* Thread t took a step of checkLocale.
StepOf(t) == threads'[t] # threads[t]

\* C21: checkLocale returns true exactly when the decimal point it found was
\* '.'; a call with autoFix = false leaves the locale as it is, and after a
\* call with autoFix = true that found another decimal point the decimal
\* point is '.'.
C21_CheckLocale ==
  /\ [](\A t \in Threads :
          threads[t].at = "returned" =>
            /\ threads[t].ok <=> threads[t].saw = 46
            /\ (~threads[t].ok /\ threads[t].autoFix) => locale = 46)
  /\ [][\A t \in Threads :
          (StepOf(t) /\ (~threads[t].autoFix \/ threads[t].at # "fix")) => locale' = locale]_vars

\* One call with autoFix = true found ',' and left '.', another with
\* autoFix = false found ',' and returned false.
C21_Witness ==
  \E t, u \in Threads :
    /\ threads[t].at = "returned" /\ threads[t].autoFix /\ ~threads[t].ok
    /\ threads[t].saw = 44 /\ locale = 46
    /\ threads[u].at = "returned" /\ ~threads[u].autoFix /\ ~threads[u].ok
    /\ threads[u].saw = 44

\* C22: with every thread's guard fixing the locale, the decimal point is
\* '.' once any guard has returned, whatever the order of the reads and
\* writes; and no step takes a '.' away.
C22_RacingGuards ==
  /\ []((\E t \in Threads : threads[t].at = "returned" /\ threads[t].autoFix) => locale = 46)
  /\ [][locale = 46 => locale' = 46]_vars

\* Two guards both read ',' before either wrote, and both have written.
C22_Witness ==
  \E t, u \in Threads :
    /\ t # u
    /\ threads[t].at = "returned" /\ threads[t].autoFix /\ threads[t].saw = 44
    /\ threads[u].at = "returned" /\ threads[u].autoFix /\ threads[u].saw = 44
    /\ locale = 46

(***************************************************************************)
(* toUtf8 on strings and byte arrays, null, empty and not, as the values   *)
(* of a map and as the items of a QStringList and of a QByteArrayList      *)
(* (main.cpp lines 230-270).                                               *)
(***************************************************************************)
\* QString{}, QString{""} and "a".
StringItems ==
  {QVariantNode("QStringNull", <<>>), QVariantNode("QString", <<>>),
   QVariantNode("QString", <<97>>)}

\* QByteArray{}, QByteArray{""} and "a".
ByteArrayItems ==
  {QVariantNode("QByteArray", [null |-> TRUE, data |-> <<>>]),
   QVariantNode("QByteArray", [null |-> FALSE, data |-> <<>>]),
   QVariantNode("QByteArray", [null |-> FALSE, data |-> <<97>>])}

ItemLists ==
  {<<QVariantNode("QStringList", items)>> :
      items \in UNION {[1..n -> StringItems] : n \in 0..MaxItems}}
  \cup
  {<<QVariantNode("QByteArrayList", items)>> :
      items \in UNION {[1..n -> ByteArrayItems] : n \in 0..MaxItems}}

ItemKeys == <<<<97>>, <<98>>, <<99>>, <<100>>>>

\* Maps from "a", "b", ... to strings and byte arrays.
ItemMaps ==
  {MapOf(SubSeq(ItemKeys, 1, Len(kids)), [i \in 1..Len(kids) |-> <<kids[i]>>]) :
      kids \in UNION {[1..n -> StringItems \cup ByteArrayItems] : n \in 1..MaxItems}}

ByteArrayValues == ItemLists \cup ItemMaps

InitByteArrays ==
  /\ value \in ByteArrayValues
  /\ compact \in BOOLEAN
  /\ serOption \in SerOptions
  /\ bytes = <<>>
  /\ pc = "toUtf8"
  /\ IdleParse
  /\ token = NoToken
  /\ conv = NoConv
  /\ writer = NewFilter
  /\ pushed = NoPush
  /\ option = "AcceptAnyValue"
  /\ result = "none"
  /\ json = NoJson
  /\ first = NoParse
  /\ IdleGuard

NextByteArrays == CallToUtf8

SpecByteArrays == InitByteArrays /\ [][NextByteArrays]_vars

\* What stands for a string or a byte array of at most one letter: null for
\* a byte array without bytes, and the letters between quotes otherwise.
ItemText(n) ==
  IF n.t = "QByteArray"
    THEN IF n.v.null \/ Len(n.v.data) = 0 THEN NullText ELSE <<34>> \o n.v.data \o <<34>>
  ELSE <<34>> \o n.v \o <<34>>

RECURSIVE ItemsText(_)
ItemsText(items) ==
  IF items = <<>> THEN <<>>
  ELSE ItemText(items[1]) \o (IF Len(items) > 1 THEN <<44>> ELSE <<>>) \o ItemsText(Tail(items))

RECURSIVE PairsText(_, _, _)
PairsText(v, pairs, j) ==
  IF j > Len(pairs) THEN <<>>
  ELSE <<34>> \o pairs[j].key \o <<34, 58>> \o ItemText(v[pairs[j].val])
       \o (IF j < Len(pairs) THEN <<44>> ELSE <<>>) \o PairsText(v, pairs, j + 1)

\* The text of a list of items, or of a map of items.
ValueText(v) ==
  IF v[1].t = "QVariantMap" THEN <<123>> \o PairsText(v, v[1].v, 1) \o <<125>>
  ELSE <<91>> \o ItemsText(v[1].v) \o <<93>>

\* C23: a null or empty byte array is written as null and a null or empty
\* string as "", as the value of a map and as an item of a QByteArrayList
\* and of a QStringList.
C23_NullByteArray ==
  pc = "serialized" =>
    /\ ~json.threw
    /\ Strip(json.bytes) = ValueText(value)
    /\ compact => json.bytes = ValueText(value)

\* {"a": QByteArray{""}, "b": QString{}} was written as {"a":null,"b":""}.
C23_Witness ==
  /\ pc = "serialized"
  /\ compact
  /\ value = MapOf(<<<<97>>, <<98>>>>,
                   << <<QVariantNode("QByteArray", [null |-> FALSE, data |-> <<>>])>>,
                      <<QVariantNode("QStringNull", <<>>)>> >>)
  /\ json.bytes = S(<<"{", "\"", "a", "\"", ":", "n", "u", "l", "l", ",",
                      "\"", "b", "\"", ":", "\"", "\"", "}">>)

\* A QByteArrayList of "a" and QByteArray{} was written as ["a",null].
C23_ListWitness ==
  /\ pc = "serialized"
  /\ compact
  /\ value[1].t = "QByteArrayList"
  /\ json.bytes = S(<<"[", "\"", "a", "\"", ",", "n", "u", "l", "l", "]">>)

(***************************************************************************)
(* parse on a buffer that is there in full, run to its return: the buffers *)
(* are made of up to MaxTermChunks pieces, tokens and pieces of tokens.    *)
(* parse is sequential code: a step that can be taken is taken.            *)
(***************************************************************************)
MaxTermChunks == 2

TermChunks ==
  (Chunks \ {BigNumber})
    \cup {S(<<"\"", "a">>), S(<<"n", "u", "l">>), S(<<"-">>), S(<<"\"", "\\", "u", "0">>)}

TermInputs == {Concat(ps) : ps \in UNION {[1..n -> TermChunks] : n \in 0..MaxTermChunks}}

InitTerminates ==
  /\ bytes \in TermInputs
  /\ pc = "call"
  /\ IdleParse
  /\ IdleAux

NextTerminates == Enter \/ ParseIter \/ Final

SpecTerminates == InitTerminates /\ [][NextTerminates]_vars /\ WF_vars(NextTerminates)

\* What getJsonToken gives at the cursor of the loop.
ConsumedInBounds(T) ==
  IF T.tok \in {"JTOK_NONE", "JTOK_ERR"} THEN T.consumed = 0
  ELSE T.consumed > 0 /\ raw + T.consumed <= Len(bytes)

\* An iteration of the loop: it returns false on JTOK_NONE and JTOK_ERR, and
\* moves the cursor forward, within the buffer, on every other token.
IterAdvances ==
  (pc = "loop" /\ iters' = iters + 1) =>
    IF tok' \in {"JTOK_NONE", "JTOK_ERR"}
      THEN raw' = raw /\ pc' = "done" /\ ret' = "false"
      ELSE raw' > raw /\ raw' <= Len(bytes)

\* C24: parse returns; getJsonToken gives consumed > 0, and no more than is
\* left of the buffer, with a token, and consumed = 0 with JTOK_NONE and
\* JTOK_ERR; the loop stops on those two; and the loop has made no more
\* iterations than it has consumed bytes, the one that returns aside.
C24_Terminates ==
  /\ <>(pc = "done")
  /\ []((pc \in {"loop", "final"}) => ConsumedInBounds(getJsonToken(bytes, raw)))
  /\ [](raw <= Len(bytes) /\ iters <= raw + (IF pc = "done" THEN 1 ELSE 0))
  /\ [][IterAdvances]_vars

\* parse returned true after two iterations over the two bytes [].
C24_Witness ==
  /\ pc = "done"
  /\ ret = "true"
  /\ bytes = S(<<"[", "]">>)
  /\ iters = 2
  /\ raw = 2

\* parse returned false on a token cut by the end of the buffer.
C24_StopsOnErr ==
  /\ pc = "done"
  /\ ret = "false"
  /\ tok = "JTOK_ERR"
  /\ bytes = S(<<"[", "n", "u", "l">>)
  /\ iters = 2
  /\ raw = 1

(***************************************************************************)
(* The size of the stack of open containers, under Spec.                   *)
(***************************************************************************)
\* C25 as stated: the stack never holds more than MAX_JSON_DEPTH entries.
C25_AsStated == Len(stack) <= MAX_JSON_DEPTH

\* C25: the stack never holds more than MAX_JSON_DEPTH + 1 entries, and when
\* it holds MAX_JSON_DEPTH + 1 parse has returned false from line 623: the
\* container beyond the limit is created and pushed, and the test that
\* follows the push returns.
C25_DepthBound ==
  /\ Len(stack) <= MAX_JSON_DEPTH + 1
  /\ Len(stack) > MAX_JSON_DEPTH => (pc = "done" /\ ret = "false" /\ site = 623)

\* parse returned from line 623 with an array beyond the limit on the stack
\* and in the values of the array below it.
C25_Witness ==
  /\ pc = "done"
  /\ site = 623
  /\ Len(stack) = MAX_JSON_DEPTH + 1
  /\ heap[back(stack)].typ = "Arr"
  /\ heap[stack[MAX_JSON_DEPTH]].typ = "Arr"
  /\ back(heap[stack[MAX_JSON_DEPTH]].values) = back(stack)

(***************************************************************************)
(* The value slots of objects, under Spec.  In a step of the loop, tok is  *)
(* the token before the one the step reads and tok' the one it reads;      *)
(* site' is the line the step returned from, 0 if it did not return.  A    *)
(* slot is one Container of the heap, created empty with its key.          *)
(***************************************************************************)
\* The returns of the checks against the expectation bits, lines 558-588.
ExpectSites == {560, 566, 573, 577, 581, 586}

\* The returns the source marks as paranoia: an object without entries.
ParanoiaSites == {607, 699, 723, 754}

\* The step is an iteration of the loop that has read a token that passed
\* the checks of lines 558-588.
Switched ==
  /\ pc = "loop"
  /\ iters' = iters + 1
  /\ tok' \notin {"JTOK_NONE", "JTOK_ERR"}
  /\ site' \notin ExpectSites

TopIsObj == stack # <<>> /\ heap[back(stack)].typ = "Obj"

\* The step takes a string as the name of a member.
NameStep == Switched /\ tok' = "JTOK_STRING" /\ "OBJ_NAME" \in expectMask

\* The step attaches a value, or a new container, under the object on top.
AttachStep == Switched /\ isValueOpen(tok') /\ TopIsObj /\ ~NameStep

\* The type of the Container that the token t makes.
TypOfToken(t) ==
  IF t = "JTOK_OBJ_OPEN" THEN "Obj"
  ELSE IF t = "JTOK_ARR_OPEN" THEN "Arr"
  ELSE IF t = "JTOK_NUMBER" THEN "Num"
  ELSE IF t = "JTOK_STRING" THEN "Str"
  ELSE IF t = "JTOK_KW_NULL" THEN "Null"
  ELSE IF t = "JTOK_KW_TRUE" THEN "BoolTrue"
  ELSE "BoolFalse"

\* The last entry of the object on top is pending, and the step fills its
\* slot and touches nothing else of the tree.
FillsPendingSlot ==
  LET top == back(stack)
      E == heap[top].entries
  IN /\ E # <<>>
     /\ site' \notin ParanoiaSites
     /\ tok = "JTOK_COLON"
     /\ heap[back(E).second] = NullContainer
     /\ Len(heap') = Len(heap)
     /\ heap'[back(E).second].typ = TypOfToken(tok')
     /\ \A i \in 1..Len(heap) : i # back(E).second => heap'[i] = heap[i]

\* A name opens one entry with an empty slot, after '{' or ','.
OpensEntry ==
  LET top == back(stack) IN
  /\ TopIsObj
  /\ tok \in {"JTOK_OBJ_OPEN", "JTOK_COMMA"}
  /\ Len(heap'[top].entries) = Len(heap[top].entries) + 1
  /\ SubSeq(heap'[top].entries, 1, Len(heap[top].entries)) = heap[top].entries
  /\ heap'[back(heap'[top].entries).second] = NullContainer
  /\ back(heap'[top].entries).second = Len(heap) + 1

\* A '}' or ',' that is accepted finds no entry of the object waiting for
\* its colon or its value.
LeavesNoneWaiting ==
  (Switched /\ TopIsObj /\ tok' \in {"JTOK_OBJ_CLOSE", "JTOK_COMMA"} /\ site' = 0)
    => /\ "COLON" \notin expectMask
       /\ tok # "JTOK_COLON"
       /\ heap[back(stack)].entries = <<>> => tok = "JTOK_OBJ_OPEN"

\* C26: a value or a new container is attached under an object only into the
\* empty slot of its last entry, directly after the colon, and fills that
\* slot alone; names open entries one at a time; and an object is closed or
\* continued only with every entry filled.
C26_PendingSlot ==
  /\ [][AttachStep => FillsPendingSlot]_vars
  /\ [][NameStep => OpensEntry]_vars
  /\ [][LeavesNoneWaiting]_vars

\* {"a":1} was parsed: the number was attached into the slot of "a", and the
\* object was closed with that one entry.
C26_Witness ==
  /\ pc = "done"
  /\ ret = "true"
  /\ heap[1].typ = "Obj"
  /\ Len(heap[1].entries) = 1
  /\ heap[1].entries[1].first = <<97>>
  /\ heap[heap[1].entries[1].second].typ = "Num"


(***************************************************************************)
(* JSONUTF8StringFilter with both of its channels: a filter is given bytes *)
(* through push_back and code units through push_back_u, in any order, as  *)
(* the raw bytes and the \u escapes of a string literal give them.         *)
(***************************************************************************)

\* The most calls one filter is given.
MaxCalls == 4

\* 'A', a high surrogate and a low surrogate.
ChannelUnits == {65, 55348, 56606}

\* 'A', continuation bytes, the leads of a 2-, 3- and 4-byte sequence (ED A0
\* 80 and ED B0 80 spell the surrogates D800 and DC00), and a reserved byte.
ChannelBytes == {65, 128, 160, 176, 195, 237, 240, 248}

InitChannels ==
  /\ bytes = <<>>
  /\ pc = "channels"
  /\ IdleParse
  /\ IdleAux

\* writer.push_back_u(cp)
CallPushBackU(cp) ==
  /\ pc = "channels"
  /\ fed < MaxCalls
  /\ fed' = fed + 1
  /\ pushed' = [f |-> writer, cp |-> cp]
  /\ writer' = push_back_u(writer, cp)
  /\ UNCHANGED <<bytes, eof, pc, locals, out, ret, site, ref, token, conv, value, api>>

\* writer.push_back(ch)
CallPushBack(ch) ==
  /\ pc = "channels"
  /\ fed < MaxCalls
  /\ fed' = fed + 1
  /\ pushed' = [f |-> writer, ch |-> ch]
  /\ writer' = push_back(writer, ch)
  /\ UNCHANGED <<bytes, eof, pc, locals, out, ret, site, ref, token, conv, value, api>>

NextChannels ==
  \/ \E cp \in ChannelUnits : CallPushBackU(cp)
  \/ \E ch \in ChannelBytes : CallPushBack(ch)

SpecChannels == InitChannels /\ [][NextChannels]_vars

\* The last call was push_back_u, or push_back.
ByUnit == fed > 0 /\ "cp" \in DOMAIN pushed
ByByte == fed > 0 /\ "ch" \in DOMAIN pushed

\* The last call gave the codepoint channel a codepoint: push_back_u its
\* argument, push_back the codepoint its byte completed.
Handed ==
  \/ ByUnit
  \/ ByByte /\ pushed.f.state = 6

HandedCodepoint ==
  IF ByUnit THEN pushed.cp
  ELSE BitOr(pushed.f.codepoint, BitAnd(pushed.ch, 63))

IsHigh(cp) == cp >= 55296 /\ cp < 56320
IsLow(cp) == cp >= 56320 /\ cp < 57344

\* C27: over any sequence of calls on the two channels, a high surrogate
\* handed to the codepoint channel while a high surrogate is pending makes the
\* filter invalid, so does a low surrogate with none pending, and so does any
\* other codepoint while one is pending; a filter once invalid stays invalid;
\* and finalize() returns true exactly when state is 0, surpair is 0 and the
\* filter is still valid.
C27_SurrogatePairing ==
  /\ Handed =>
       /\ (IsHigh(HandedCodepoint) /\ pushed.f.surpair # 0) => ~writer.is_valid
       /\ (IsLow(HandedCodepoint) /\ pushed.f.surpair = 0) => ~writer.is_valid
       /\ (~IsHigh(HandedCodepoint) /\ ~IsLow(HandedCodepoint) /\ pushed.f.surpair # 0)
            => ~writer.is_valid
  /\ (fed > 0 /\ ~pushed.f.is_valid) => ~writer.is_valid
  /\ finalize(writer).is_valid
       <=> (writer.state = 0 /\ writer.surpair = 0 /\ writer.is_valid)

\* 'A' was pushed as a code unit while D834 was pending.
C27_Witness ==
  /\ ByUnit
  /\ pushed.f.is_valid
  /\ pushed.f.surpair = 55348
  /\ pushed.cp = 65
  /\ ~writer.is_valid

\* A valid filter that finalize() refuses: a sequence is open, or a high
\* surrogate is pending.
C27_OpenAtEnd ==
  /\ writer.is_valid
  /\ writer.state # 0 \/ writer.surpair # 0
  /\ ~finalize(writer).is_valid

\* The bytes of a sequence still owed after a call.
Owed(f) == f.state \div 6

IsTail(ch) == ch >= 128 /\ ch < 192

\* C28: with no sequence open, a byte in 0x80..0xBF or from 0xF8 up makes the
\* filter invalid; with a sequence open, so does every byte outside
\* 0x80..0xBF, and so does a code unit pushed through push_back_u; a lead
\* byte C0..DF, E0..EF, F0..F7 opens a sequence that owes 1, 2, 3 bytes, each
\* byte given to an open sequence pays one of them, and the codepoint channel
\* is handed the assembled codepoint by the byte that pays the last: until
\* then neither the output nor the pending surrogate changes.
C28_ByteChannel ==
  /\ writer.state \in {0, 6, 12, 18}
  /\ (ByByte /\ pushed.f.state = 0) =>
       /\ (IsTail(pushed.ch) \/ pushed.ch >= 248) => ~writer.is_valid
       /\ pushed.ch < 128 => writer = [pushed.f EXCEPT !.str = Append(@, pushed.ch)]
       /\ (pushed.ch >= 192 /\ pushed.ch < 224) => Owed(writer) = 1
       /\ (pushed.ch >= 224 /\ pushed.ch < 240) => Owed(writer) = 2
       /\ (pushed.ch >= 240 /\ pushed.ch < 248) => Owed(writer) = 3
       /\ pushed.ch >= 128 =>
            /\ writer.str = pushed.f.str
            /\ writer.surpair = pushed.f.surpair
  /\ (ByByte /\ pushed.f.state # 0) =>
       /\ ~IsTail(pushed.ch) => ~writer.is_valid
       /\ Owed(writer) = Owed(pushed.f) - 1
       /\ Owed(writer) > 0 =>
            /\ writer.str = pushed.f.str
            /\ writer.surpair = pushed.f.surpair
       /\ Owed(writer) = 0 =>
            writer = push_back_u([pushed.f EXCEPT
                                    !.is_valid = @ /\ IsTail(pushed.ch),
                                    !.state = 0,
                                    !.codepoint = HandedCodepoint],
                                 HandedCodepoint)
  /\ (ByUnit /\ pushed.f.state # 0) => ~writer.is_valid

\* F0 A0 80 80: U+20000 is handed over by the fourth byte and not before.
C28_Witness ==
  /\ fed = 4
  /\ ByByte
  /\ pushed.f.str = <<>>
  /\ Owed(pushed.f) = 1
  /\ pushed.f.codepoint = 131072
  /\ writer.is_valid
  /\ writer.str = <<240, 160, 128, 128>>

\* 'A' was given to an open 2-byte sequence.
C28_BadTail ==
  /\ ByByte
  /\ pushed.f.is_valid
  /\ pushed.f.state = 6
  /\ pushed.ch = 65
  /\ ~writer.is_valid

\* A code unit was pushed while a sequence was open.
C28_UnitInSequence ==
  /\ ByUnit
  /\ pushed.f.is_valid
  /\ pushed.f.state # 0
  /\ ~writer.is_valid


\* The loop is about to call getJsonToken at the cursor.
AtCall == pc \in {"loop", "final"}

\* C29: getJsonToken reads no byte at an offset at or beyond end, and a token
\* other than NONE and ERR ends at or before end.
C29_AsStated ==
  AtCall =>
    /\ \A p \in Inspected(bytes, raw) : p < Len(bytes)
    /\ ConsumedInBounds(getJsonToken(bytes, raw))

\* The token at the cursor starts with the '-' that ends the buffer.
EndsInMinus ==
  LET p == SkipSpace(bytes, raw)
  IN p + 1 = Len(bytes) /\ At(bytes, p) = Ord["-"]

\* The buffer ends in the first bytes, not all, of null, true or false.
EndsInKeywordPrefix ==
  LET p == SkipSpace(bytes, raw)
      rest == SubSeq(bytes, p + 1, Len(bytes))
  IN /\ p < Len(bytes)
     /\ \E w \in {S(<<"n", "u", "l", "l">>), S(<<"t", "r", "u", "e">>),
                  S(<<"f", "a", "l", "s", "e">>)} :
          Len(rest) < Len(w) /\ rest = SubSeq(w, 1, Len(rest))

\* What holds instead: no offset beyond end is read, the offset end itself
\* is read exactly for a buffer that ends in '-' or within a keyword, the
\* token is then ERR, and consumed stays within the buffer.
C29_ReadsTerminator ==
  AtCall =>
    /\ \A p \in Inspected(bytes, raw) : p <= Len(bytes)
    /\ Len(bytes) \in Inspected(bytes, raw) <=> (EndsInMinus \/ EndsInKeywordPrefix)
    /\ Len(bytes) \in Inspected(bytes, raw) => getJsonToken(bytes, raw).tok = "JTOK_ERR"
    /\ ConsumedInBounds(getJsonToken(bytes, raw))

\* The buffer "-": line 325 reads *firstDigit at end.
C29_Minus ==
  /\ AtCall
  /\ bytes = S(<<"-">>)
  /\ raw = 0
  /\ Inspected(bytes, raw) = {0, 1}

\* The buffer "[nul": strncmp reads raw[3] at end.
C29_Truncated ==
  /\ AtCall
  /\ bytes = S(<<"[", "n", "u", "l">>)
  /\ raw = 1
  /\ Inspected(bytes, raw) = {1, 2, 3, 4}


(***************************************************************************)
(* The Containers that `stack` points to.  A Container lives by value in   *)
(* the vector of its parent, so an emplace_back on a vector may move every *)
(* Container that vector holds, and with it all that is nested in them.    *)
(***************************************************************************)

\* The Containers held in the vectors of heap cell c.
ChildrenOf(c) ==
  {c.values[i] : i \in DOMAIN c.values} \cup {c.entries[i].second : i \in DOMAIN c.entries}

\* The Containers held in h[c], directly or nested.
RECURSIVE Within(_, _)
Within(h, c) ==
  ChildrenOf(h[c]) \cup UNION {Within(h, k) : k \in ChildrenOf(h[c])}

\* &top->values.back() or &top->entries.back().second of a cell with children.
LastChild(c) ==
  IF c.typ = "Obj" THEN back(c.entries).second ELSE back(c.values)

HasChild(c) ==
  IF c.typ = "Obj" THEN c.entries # <<>> ELSE c.typ = "Arr" /\ c.values # <<>>

\* stack is the path from root to the open Container, each step to the last
\* child.
PathOfLastChildren ==
  /\ stack # <<>> => stack[1] = 1
  /\ \A i \in 2..Len(stack) :
       /\ HasChild(heap[stack[i - 1]])
       /\ stack[i] = LastChild(heap[stack[i - 1]])

\* An iteration of the loop appended to a vector of cell c.
Grows(c) ==
  /\ pc = "loop"
  /\ iters' = iters + 1
  /\ c \in DOMAIN heap'
  /\ \/ Len(heap'[c].values) > Len(heap[c].values)
     \/ Len(heap'[c].entries) > Len(heap[c].entries)

\* The append was to the Container on top of the stack, and stack pointed to
\* none of those it may have moved.
AppendsToTop ==
  \A c \in DOMAIN heap :
    Grows(c) =>
      /\ stack # <<>>
      /\ c = back(stack)
      /\ \A i \in DOMAIN stack : stack[i] \notin Within(heap, c)

\* C30: at every point of a parse each Container on the stack but the bottom
\* one, which is root, is the last child of the one below it: the last of its
\* values, or the value slot of its last entry; an iteration appends to the
\* vectors of the top Container only, so no append moves a Container that
\* the stack points to.
C30_StackOfLastChildren ==
  /\ [](pc \in {"loop", "final", "done"} => PathOfLastChildren)
  /\ [][AppendsToTop]_vars

\* Three Containers are open and the outermost holds more than its open
\* child: [1,[[ and the like.
C30_Witness ==
  /\ pc = "loop"
  /\ Len(stack) >= 3
  /\ Len(heap[stack[1]].values) >= 2


(***************************************************************************)
(* Surrogates in the output of the filter.  The bytes of a code point from *)
(* U+D800 to U+DFFF, were it encoded, are ED, then A0..BF, then 80..BF; ED *)
(* is no continuation byte, so it occurs in the output only as the first   *)
(* byte of an encoding.                                                    *)
(***************************************************************************)

\* str holds the encoding of a surrogate.
HoldsSurrogate(str) ==
  \E i \in 1..(Len(str) - 1) : str[i] = 237 /\ str[i + 1] >= 160 /\ str[i + 1] < 192

\* What the last call appended to the output.
Appended == SubSeq(writer.str, Len(pushed.f.str) + 1, Len(writer.str))

\* C31: the output of the filter never holds the UTF-8 encoding of a code
\* point from U+D800 to U+DFFF, whether the surrogate came through
\* push_back_u or was spelt as raw bytes ED A0..BF xx: a high surrogate
\* appends nothing and is then pending, or the filter is invalid; a low
\* surrogate appends nothing and the filter is invalid, or it closes the
\* pending pair and four bytes of a code point from U+10000 up are appended.
C31_NoSurrogateInOutput ==
  /\ ~HoldsSurrogate(writer.str)
  /\ fed > 0 => writer.str = pushed.f.str \o Appended
  /\ (Handed /\ IsHigh(HandedCodepoint)) =>
       /\ Appended = <<>>
       /\ writer.surpair = HandedCodepoint \/ ~writer.is_valid
  /\ (Handed /\ IsLow(HandedCodepoint)) =>
       \/ Appended = <<>> /\ ~writer.is_valid
       \/ /\ pushed.f.surpair # 0
          /\ writer.surpair = 0
          /\ Len(Appended) = 4
          /\ Appended[1] >= 240

\* The raw bytes ED A0 80 left U+D800 pending and the output empty.
C31_Witness ==
  /\ fed = 3
  /\ ByByte
  /\ pushed.f.state = 6
  /\ HandedCodepoint = 55296
  /\ writer.is_valid
  /\ writer.surpair = 55296
  /\ writer.str = <<>>

\* A low surrogate pushed through push_back_u with none pending.
C31_LoneLow ==
  /\ ByUnit
  /\ pushed.f.is_valid
  /\ pushed.f.surpair = 0
  /\ pushed.cp = 56606
  /\ ~writer.is_valid
  /\ writer.str = pushed.f.str


(***************************************************************************)
(* The validity of a filter over its life: runs that call the two channels *)
(* of a filter directly, and runs that give getJsonToken a string literal, *)
(* whose loop makes the calls and ends with finalize().                    *)
(***************************************************************************)
\* The most pieces a literal is made of.
MaxValidPieces == 2

\* 'A', a lone continuation byte, U+00E9, an open sequence, a reserved byte,
\* the raw bytes of U+D800, and the escapes of 'A', a high and a low surrogate.
ValidityPieces ==
  { <<65>>, <<128>>, <<195, 169>>, <<195>>, <<248>>, <<237, 160, 128>>,
    S(<<"\\", "u", "0", "0", "4", "1">>), S(<<"\\", "u", "D", "8", "3", "4">>),
    S(<<"\\", "u", "D", "D", "1", "E">>) }

ValidityLiterals ==
  { Quote \o Concat(ps) \o close :
      ps \in UNION {[1..n -> ValidityPieces] : n \in 0..MaxValidPieces},
      close \in {<<>>, Quote} }

InitLiterals ==
  /\ bytes \in ValidityLiterals
  /\ pc = "lex"
  /\ IdleParse
  /\ IdleAux

InitValidity == InitChannels \/ InitLiterals

NextValidity == NextChannels \/ Tokenize

SpecValidity == InitValidity /\ [][NextValidity]_vars

\* The filter of the literal b when the loop has gone through its first n
\* bytes.
FilterAfter(b, n) == StringLoop(SubSeq(b, 1, n), 1, NewFilter).writer

\* bytes is a string literal, closed or not.
IsLiteral == bytes # <<>> /\ bytes[1] = Ord["\""]

\* Some byte or escape of the literal made its filter invalid.
TurnsInvalid == \E n \in 1..Len(bytes) : ~FilterAfter(bytes, n).is_valid

\* C32: a filter that is invalid stays invalid through every later call of
\* push_back and push_back_u, and finalize() returns false for it; so a
\* string literal in which a byte or an escape makes the filter invalid keeps
\* it invalid to its end and is answered with JTOK_ERR, whatever follows.
C32_ValidityIsMonotone ==
  /\ [][~writer.is_valid => ~writer'.is_valid]_vars
  /\ [](~writer.is_valid => ~finalize(writer).is_valid)
  /\ [](IsLiteral =>
          /\ \A n \in 1..Len(bytes) : \A m \in n..Len(bytes) :
               ~FilterAfter(bytes, n).is_valid => ~FilterAfter(bytes, m).is_valid
          /\ TurnsInvalid => getJsonToken(bytes, 0).tok = "JTOK_ERR"
          /\ (TurnsInvalid /\ pc = "lexed") => token.tok = "JTOK_ERR")

\* The literal of the bytes 80 41: the first makes the filter invalid, the
\* second is plain ASCII, the quote closes the literal, and the token is ERR.
C32_Witness ==
  /\ pc = "lexed"
  /\ bytes = <<34, 128, 65, 34>>
  /\ ~FilterAfter(bytes, 2).is_valid
  /\ StringLoop(bytes, 1, NewFilter).ok
  /\ token.tok = "JTOK_ERR"

\* An invalid filter with nothing open was given 'A' and stayed invalid.
C32_StaysInvalid ==
  /\ pc = "channels"
  /\ ByByte
  /\ pushed.ch = 65
  /\ ~pushed.f.is_valid
  /\ pushed.f.state = 0
  /\ pushed.f.surpair = 0
  /\ ~writer.is_valid


(***************************************************************************)
(* The expectation bits at the head of the loop.  Lines 558-582 test them  *)
(* in an if/else chain that stops at the first bit that is set; NOT_VALUE  *)
(* has its own test (lines 584-588).                                       *)
(***************************************************************************)
ChainBits == {"VALUE", "ARR_VALUE", "OBJ_NAME", "COLON"}

TokenKinds ==
  { "JTOK_OBJ_OPEN", "JTOK_OBJ_CLOSE", "JTOK_ARR_OPEN", "JTOK_ARR_CLOSE", "JTOK_COLON",
    "JTOK_COMMA", "JTOK_KW_NULL", "JTOK_KW_TRUE", "JTOK_KW_FALSE", "JTOK_NUMBER",
    "JTOK_STRING" }

\* Token t passes the test of every bit that is set in mask, each test taken
\* by itself.
PassesEveryBit(mask, t) ==
  /\ "VALUE" \in mask => isValueOpen(t)
  /\ "ARR_VALUE" \in mask => (isValueOpen(t) \/ t = "JTOK_ARR_CLOSE")
  /\ "OBJ_NAME" \in mask => (t = "JTOK_OBJ_CLOSE" \/ t = "JTOK_STRING")
  /\ "COLON" \in mask <=> t = "JTOK_COLON"
  /\ "NOT_VALUE" \in mask => ~isValueOpen(t)

\* The head of an iteration: the loop is about to read a token.
AtLoopHead == pc = "loop"

\* C33: at the head of every iteration at most one of OBJ_NAME, COLON,
\* ARR_VALUE, VALUE is set; NOT_VALUE is not set together with VALUE,
\* ARR_VALUE or OBJ_NAME; OBJ_NAME is set only while the top of the stack is
\* an object; so for every token the chain of lines 558-588 lets it pass
\* exactly if it passes the test of every bit that is set.
C33_OneExpectation ==
  AtLoopHead =>
    /\ Cardinality(expectMask \cap ChainBits) <= 1
    /\ "NOT_VALUE" \in expectMask => expectMask \cap {"VALUE", "ARR_VALUE", "OBJ_NAME"} = {}
    /\ "OBJ_NAME" \in expectMask => (stack # <<>> /\ heap[back(stack)].typ = "Obj")
    /\ \A t \in TokenKinds :
         CheckExpect(expectMask, t).rc = 0 <=> PassesEveryBit(expectMask, t)

\* After the name of a member: COLON is set, and NOT_VALUE with it.
C33_Witness ==
  /\ AtLoopHead
  /\ iters = 2
  /\ tok = "JTOK_STRING"
  /\ expectMask = {"COLON", "NOT_VALUE"}
  /\ stack # <<>>
  /\ heap[back(stack)].typ = "Obj"

\* After a comma in an object OBJ_NAME is set by itself.
C33_NameAfterComma ==
  /\ AtLoopHead
  /\ tok = "JTOK_COMMA"
  /\ expectMask = {"OBJ_NAME"}

=============================================================================
